---- MODULE Spec2Model ----
(***************************************************************************)
(* Model of the task_manager agent: the step-bounded tool-calling loop     *)
(* (agent.py run_agent), the goal validator, the line-delimited JSON       *)
(* transport (mcp_client.py MCPClient), the tool executor (mcp_server.py)  *)
(* and the task store (storage.py).                                        *)
(*                                                                         *)
(* Two programs of the repository drive the transport: run_agent (reached  *)
(* through main.run_goal) and a direct caller of MCPClient in the style of *)
(* mcp_client.py's __main__ block.  The variable `entry` says which one a  *)
(* behaviour is about.  A third driver applies the goal validator to the   *)
(* results of tool requests that the Tool Executor has served, and a       *)
(* fourth calls one of the router functions of skill_router.py.            *)
(***************************************************************************)
EXTENDS Integers, Sequences, FiniteSets, TLC

VARIABLES
    entry,          \* "run_agent" | "mcp_client" | "validator" | "router": the program being run
    pc,             \* control location of the running program
    goal,           \* run_agent's goal argument (a record of Goals)
    max_steps,      \* run_agent's max_steps argument
    step,           \* the loop variable `step` (0 before the loop)
    messages,       \* the Conversation (list of message dicts)
    pending,        \* tool calls of the current assistant message not yet executed
    vs,             \* validation_state: GoalValidationState
    last_tool_result, \* last_tool_result (NoneText while None)
    exit,           \* which return/raise statement ended run_agent ("running" before)
    result,         \* the value of the return statement reached
    outcome,        \* what the caller of run_agent observes: "running" | "returned" | "raised"
    gatewayCalls,   \* number of _create_chat_completion_with_token_compat calls made
    nextCallId,     \* the gateway's tool-call id generator
    callLog,        \* history: one record per tool call processed by run_agent
    proc,           \* MCPClient._proc / the child: "none" | "running" | "exited" |
                    \* "closing" (still running, its stdin closed by close())
    wire,           \* every request line written to the child's stdin, in order
    replies,        \* every response line the child wrote to its stdout, in order
    store,          \* contents of tasks.json (list of task dicts)
    store0,         \* contents of tasks.json when the program started
    spawned,        \* number of child processes spawned so far
    lastResp,       \* the direct caller's last response dict (NoResp before)
    lastCall,       \* the direct caller's last call: what was called, with what, on which child
    nreq,           \* number of MCPClient calls made by the direct caller
    observed,       \* validator driver: the tool results folded into vs so far
    verdict,        \* validator driver: the outcome of the last validator call
    rt,             \* one invocation of a router function: arguments, locals, return value
    gw,             \* the gateway wrapper: model name, loop index, endpoint calls, outcome
    on_event        \* run_agent's on_event argument: "none" | "callable"

vars == << entry, pc, goal, max_steps, step, messages, pending, vs,
           last_tool_result, exit, result, outcome, gatewayCalls,
           nextCallId, callLog, proc, wire, replies, store, store0, spawned,
           lastResp, lastCall, nreq, observed, verdict, rt, gw, on_event >>

-----------------------------------------------------------------------------
(* Bounds of the model *)

\* largest max_steps argument explored
MaxSteps == 3
\* largest number of MCPClient calls (start, request, close) of the direct caller
MaxRequests == 3
\* largest number of tool results folded into one validation state
MaxObserved == 4
\* largest max_attempts argument of a router invocation
MaxAttempts == 3
MaxLines == 3
MaxSystemSteps == 2
MaxListed == 3
MaxCompletions == 2
MaxObservedSteps == 2

-----------------------------------------------------------------------------
(* Texts.  Every piece of text is a record: k is the format string of the   *)
(* source, n / s / l are the values substituted into it (a number, a        *)
(* string, the task lines of a listing).                                    *)

Txt(k, n, s, l) == [k |-> k, n |-> n, s |-> s, l |-> l]
Lit(k) == Txt(k, 0, "", <<>>)
NoneText == Lit("<None>")
EmptyText == Lit("")

\* str.strip() being empty / non-empty: of the texts of the model only the
\* empty string is blank.
IsBlank(t) == t = EmptyText

\* initial_count / latest_count while None
NoCount == -1

Titles == {"Buy milk"}
Task(id, title, done) == [id |-> id, title |-> title, done |-> done]

-----------------------------------------------------------------------------
(* storage.py: every operation maps the stored list to the new list and the *)
(* text it prints.                                                          *)

StoreOut(tasks, out) == [tasks |-> tasks, out |-> out]

RECURSIVE MaxId(_)
MaxId(tasks) ==
    IF tasks = <<>> THEN 0
    ELSE LET m == MaxId(Tail(tasks))
         IN  IF Head(tasks).id > m THEN Head(tasks).id ELSE m

\* next_id returning the largest id in use
next_id_NoIncrement(tasks) == IF tasks = <<>> THEN 1 ELSE MaxId(tasks)

next_id(tasks) == IF tasks = <<>> THEN 1 ELSE MaxId(tasks) + 1

add_task(tasks, title) ==
    LET task == Task(next_id(tasks), title, FALSE)
    IN  StoreOut(Append(tasks, task),
                 Txt("Added task #{n}: {s}", task.id, task.title, <<>>))

list_tasks(tasks) ==
    IF tasks = <<>>
    THEN StoreOut(tasks, Lit("No tasks yet."))
    ELSE StoreOut(tasks, Txt("{id}. {[x]|[ ]} {title}", 0, "", tasks))

\* index of the first task with this id, 0 if there is none
FirstIndex(tasks, task_id) ==
    LET hits == {i \in 1..Len(tasks) : tasks[i].id = task_id}
    IN  IF hits = {} THEN 0 ELSE CHOOSE i \in hits : \A j \in hits : i <= j

mark_done(tasks, task_id) ==
    LET i == FirstIndex(tasks, task_id)
    IN  IF i = 0
        THEN StoreOut(tasks, Txt("Task #{n} not found.", task_id, "", <<>>))
        ELSE StoreOut([tasks EXCEPT ![i].done = TRUE],
                      Txt("Marked task #{n} as done.", task_id, "", <<>>))

RemoveAt(seq, i) == SubSeq(seq, 1, i - 1) \o SubSeq(seq, i + 1, Len(seq))

\* delete_task falling back to the position in the list when no id matches
delete_task_ByPosition(tasks, task_id) ==
    LET i == FirstIndex(tasks, task_id)
        j == IF i = 0 /\ task_id \in 1..Len(tasks) THEN task_id ELSE i
    IN  IF j = 0
        THEN StoreOut(tasks, Txt("Task #{n} not found.", task_id, "", <<>>))
        ELSE StoreOut(RemoveAt(tasks, j),
                      Txt("Deleted task #{n}: {s}", task_id, tasks[j].title, <<>>))

delete_task(tasks, task_id) ==
    LET i == FirstIndex(tasks, task_id)
    IN  IF i = 0
        THEN StoreOut(tasks, Txt("Task #{n} not found.", task_id, "", <<>>))
        ELSE StoreOut(RemoveAt(tasks, i),
                      Txt("Deleted task #{n}: {s}", task_id, tasks[i].title, <<>>))

RECURSIVE Dedup(_)
\* list(dict.fromkeys(ids)): first occurrences, in order
Dedup(ids) ==
    IF ids = <<>> THEN <<>>
    ELSE LET front == Dedup(SubSeq(ids, 1, Len(ids) - 1))
             last  == ids[Len(ids)]
         IN  IF \E i \in 1..Len(front) : front[i] = last
             THEN front ELSE Append(front, last)

RECURSIVE Filter(_, _, _)
\* [task for task in tasks if (task.id in id_set) = keep]
Filter(tasks, id_set, keep) ==
    IF tasks = <<>> THEN <<>>
    ELSE LET rest == Filter(Tail(tasks), id_set, keep)
         IN  IF (Head(tasks).id \in id_set) = keep
             THEN <<Head(tasks)>> \o rest ELSE rest

IdLines(tasks) == [i \in 1..Len(tasks) |-> Task(tasks[i].id, "", FALSE)]

\* delete_tasks reporting one deletion per entry of task_ids that names a task
delete_tasks_PerEntry(tasks, task_ids) ==
    LET id_set     == {task_ids[i] : i \in 1..Len(task_ids)}
        Hit(id)    == \E i \in 1..Len(tasks) : tasks[i].id = id
        deleted    == Filter(tasks, id_set, TRUE)
        remaining  == Filter(tasks, id_set, FALSE)
    IN  IF deleted = <<>> THEN StoreOut(tasks, Lit("No tasks deleted."))
        ELSE StoreOut(remaining,
                      Txt("Deleted {n} task(s): {ids}", Len(SelectSeq(task_ids, Hit)), "",
                          IdLines(deleted)))

delete_tasks(tasks, task_ids) ==
    LET unique_ids == Dedup(task_ids)
        id_set     == {unique_ids[i] : i \in 1..Len(unique_ids)}
        deleted    == Filter(tasks, id_set, TRUE)
        remaining  == Filter(tasks, id_set, FALSE)
    IN  IF unique_ids = <<>> THEN StoreOut(tasks, Lit("No tasks deleted."))
        ELSE IF deleted = <<>> THEN StoreOut(tasks, Lit("No tasks deleted."))
        ELSE StoreOut(remaining,
                      Txt("Deleted {n} task(s): {ids}", Len(deleted), "", IdLines(deleted)))

-----------------------------------------------------------------------------
(* Python / JSON values that cross the transport.                           *)
(* py is the Python type of the value ("missing": the key is absent from    *)
(* the JSON object); s its string content; d its dict content.  For the raw *)
(* argument payload of a tool call (a str), s says what the string is:      *)
(* "json-object" (the JSON text of the object d), "json-array", "not-json"  *)
(* or "" (the empty string).                                                *)

ArgKeys == {"text", "task_id", "task_ids"}
\* a dict of tool arguments: the keys present, the keys among them whose
\* value fails the isinstance test of _dispatch_tool, the keys whose value is
\* (or holds) the JSON boolean true, and the values
ArgDict(keys, badtype, text, task_id, task_ids) ==
    [keys |-> keys, badtype |-> badtype, bools |-> {}, text |-> text,
     task_id |-> task_id, task_ids |-> task_ids]
NoArgs == ArgDict({}, {}, "", 0, <<>>)
ArgText(t) == ArgDict({"text"}, {}, t, 0, <<>>)
ArgId(i) == ArgDict({"task_id"}, {}, "", i, <<>>)
ArgIds(ids) == ArgDict({"task_ids"}, {}, "", 0, ids)
ArgBadId == ArgDict({"task_id"}, {"task_id"}, "", 0, <<>>)
\* {"task_id": true} and {"task_ids": [true]}: bool is a subclass of int, so
\* isinstance(True, int) holds and True == 1
ArgTrueId == [ArgId(1) EXCEPT !.bools = {"task_id"}]
ArgTrueIds == [ArgIds(<<1>>) EXCEPT !.bools = {"task_ids"}]

PyVal(py, s, d) == [py |-> py, s |-> s, d |-> d]
PyNone == PyVal("None", "", NoArgs)
PyMissing == PyVal("missing", "", NoArgs)
PyStr(s) == PyVal("str", s, NoArgs)
PyDict(d) == PyVal("dict", "", d)
PyList == PyVal("list", "", NoArgs)
\* the raw argument payload of a tool call: the JSON text of the object d
PyJsonObject(d) == PyVal("str", "json-object", d)

\* one line of the wire: json says whether the line parses and to what
Line(json, tool, arguments) == [json |-> json, tool |-> tool, arguments |-> arguments]

\* a response dict; has_status: the key "status" is present;
\* json: how the line carrying it parses
Resp(status, res, err) ==
    [json |-> "object", has_status |-> TRUE, status |-> status,
     result |-> res, error |-> err]
OkResp(res) == Resp("ok", res, NoneText)
ErrResp(err) == Resp("error", NoneText, err)
NoResp == [json |-> "none", has_status |-> FALSE, status |-> "",
           result |-> NoneText, error |-> NoneText]

-----------------------------------------------------------------------------
(* mcp_server.py *)

\* buffer.getvalue().strip() or "OK"
_capture_storage_output(r) ==
    [r EXCEPT !.out = IF IsBlank(r.out) THEN Lit("OK") ELSE r.out]

\* the outcome of _dispatch_tool: raised (a ValueError with message out) or
\* the captured text out, and the stored list afterwards
Raised(tasks, msg) == [raised |-> TRUE, tasks |-> tasks, out |-> msg]
Returned(r) == [raised |-> FALSE, tasks |-> r.tasks, out |-> r.out]

HasGood(arguments, key) == key \in arguments.keys /\ key \notin arguments.badtype

\* a tasks.json that load_tasks cannot use: json.loads raises, or the value
\* is not a list of task dicts
Unreadable == << Task(0, "{not json", FALSE) >>

\* f"...#{task_id}..." prints the boolean true as True
FormatId(arguments, r) ==
    IF "task_id" \notin arguments.bools THEN r
    ELSE [r EXCEPT !.out.k =
            CASE @ = "Marked task #{n} as done." -> "Marked task #True as done."
              [] @ = "Deleted task #{n}: {s}" -> "Deleted task #True: {s}"
              [] @ = "Task #{n} not found." -> "Task #True not found."
              [] OTHER -> @]

\* func(*args) under redirect_stdout: every storage operation starts with
\* load_tasks(), whose exception leaves _dispatch_tool
Captured(tasks, r) ==
    IF tasks = Unreadable
    THEN Raised(tasks, Lit("Expecting property name enclosed in double quotes"))
    ELSE Returned(_capture_storage_output(r))

_dispatch_tool(tool, arguments, tasks) ==
    IF tool = "add_task" THEN
        IF ~HasGood(arguments, "text") \/ arguments.text = ""
        THEN Raised(tasks, Lit("'add_task' requires a non-empty string argument: text"))
        ELSE Captured(tasks, add_task(tasks, arguments.text))
    ELSE IF tool = "list_tasks" THEN
        IF arguments.keys # {}
        THEN Raised(tasks, Lit("'list_tasks' does not accept arguments"))
        ELSE Captured(tasks, list_tasks(tasks))
    ELSE IF tool = "complete_task" THEN
        IF ~HasGood(arguments, "task_id")
        THEN Raised(tasks, Lit("'complete_task' requires integer argument: task_id"))
        ELSE Captured(tasks, FormatId(arguments, mark_done(tasks, arguments.task_id)))
    ELSE IF tool = "delete_task" THEN
        IF ~HasGood(arguments, "task_id")
        THEN Raised(tasks, Lit("'delete_task' requires integer argument: task_id"))
        ELSE Captured(tasks, FormatId(arguments, delete_task(tasks, arguments.task_id)))
    ELSE IF tool = "delete_tasks" THEN
        IF "task_ids" \notin arguments.keys \/ arguments.task_ids = <<>>
        THEN Raised(tasks, Lit("'delete_tasks' requires non-empty array argument: task_ids"))
        ELSE IF "task_ids" \in arguments.badtype
        THEN Raised(tasks, Lit("'delete_tasks' requires all task_ids to be integers"))
        ELSE Captured(tasks, delete_tasks(tasks, arguments.task_ids))
    ELSE Raised(tasks, Txt("Unsupported tool: {s}", 0, tool, <<>>))

\* the response dict and the stored list after one request line
Handled(resp, tasks) == [resp |-> resp, tasks |-> tasks]

\* handle_request tagging a failed dispatch with a status of its own
handle_request_FailStatus(raw_line, tasks) ==
    IF raw_line.json = "invalid"
    THEN Handled(ErrResp(Lit("Invalid JSON: {exc.msg}")), tasks)
    ELSE IF raw_line.json # "object"
    THEN Handled(ErrResp(Lit("Request must be a JSON object")), tasks)
    ELSE LET tool == raw_line.tool
             arguments == IF raw_line.arguments.py = "missing"
                          THEN PyDict(NoArgs) ELSE raw_line.arguments
         IN  IF tool.py # "str" \/ tool.s = ""
             THEN Handled(ErrResp(Lit("Missing or invalid 'tool' field")), tasks)
             ELSE IF arguments.py # "dict"
             THEN Handled(ErrResp(Lit("'arguments' must be a JSON object")), tasks)
             ELSE LET r == _dispatch_tool(tool.s, arguments.d, tasks)
                  IN  IF r.raised
                      THEN Handled(Resp("failed", NoneText, r.out), r.tasks)
                      ELSE Handled(OkResp(r.out), r.tasks)

handle_request(raw_line, tasks) ==
    IF raw_line.json = "invalid"
    THEN Handled(ErrResp(Lit("Invalid JSON: {exc.msg}")), tasks)
    ELSE IF raw_line.json # "object"
    THEN Handled(ErrResp(Lit("Request must be a JSON object")), tasks)
    ELSE LET tool == raw_line.tool
             arguments == IF raw_line.arguments.py = "missing"
                          THEN PyDict(NoArgs) ELSE raw_line.arguments
         IN  IF tool.py # "str" \/ tool.s = ""
             THEN Handled(ErrResp(Lit("Missing or invalid 'tool' field")), tasks)
             ELSE IF arguments.py # "dict"
             THEN Handled(ErrResp(Lit("'arguments' must be a JSON object")), tasks)
             ELSE LET r == _dispatch_tool(tool.s, arguments.d, tasks)
                  IN  IF r.raised
                      THEN Handled(ErrResp(r.out), r.tasks)
                      ELSE Handled(OkResp(r.out), r.tasks)

\* main() answering every line of stdin, the blank ones too
ServerMain_AnswersBlank(line, tasks) ==
    LET h == handle_request([line EXCEPT !.json = IF @ = "blank" THEN "invalid" ELSE @],
                            tasks)
    IN  [out |-> <<h.resp>>, tasks |-> h.tasks]

\* main(): one pass of the loop over sys.stdin; the response lines written
\* for this line (none for a blank line) and the stored list afterwards
ServerMain(line, tasks) ==
    IF line.json = "blank"
    THEN [out |-> <<>>, tasks |-> tasks]
    ELSE LET h == handle_request(line, tasks)
         IN  [out |-> <<h.resp>>, tasks |-> h.tasks]

-----------------------------------------------------------------------------
(* mcp_client.py: MCPClient *)

\* what can happen to the child while one request is in progress: it serves
\* the request, it exits, or the line it writes back is not the response of
\* handle_request (not JSON, not an object, an object without "status")
Fates == {"alive", "dies_before_write", "dies_before_reply",
          "reply_invalid", "reply_not_object", "reply_no_status"}
GarbledLine(fate) ==
    [NoResp EXCEPT !.json = CASE fate = "reply_invalid" -> "invalid"
                             [] fate = "reply_not_object" -> "array"
                             [] OTHER -> "object"]

\* the effect of one call: the dict returned, the child afterwards, the
\* lines added to the child's stdin and stdout, the stored list afterwards,
\* whether an exception left the call
Effect(resp, p, sent, answered, tasks) ==
    [resp |-> resp, proc |-> p, sent |-> sent, answered |-> answered,
     tasks |-> tasks, raised |-> FALSE]
\* line 79 on a closed stdin: ValueError, which `except OSError` lets through
Escaped(p, tasks) ==
    [resp |-> NoResp, proc |-> p, sent |-> <<>>, answered |-> <<>>,
     tasks |-> tasks, raised |-> TRUE]

\* json.loads(response_line) and the checks of lines 92-111
DecodeReply(response_line) ==
    IF response_line.json = "invalid"
    THEN ErrResp(Lit("Server returned invalid JSON response"))
    ELSE IF response_line.json # "object"
    THEN ErrResp(Lit("Server response must be a JSON object"))
    ELSE IF ~response_line.has_status
    THEN ErrResp(Lit("Server response missing required field: status"))
    ELSE response_line

\* NotRunning without the poll() of the child: only `self._proc is None`
NotRunning_NoPoll(p) == p = "none"

\* line 66: `self._proc is None or self._proc.poll() is not None`
NotRunning(p) == p \notin {"running", "closing"}

\* MCPClient_request writing the request line before it validates it
MCPClient_request_WriteFirst(p, tool, arguments0, fate, tasks) ==
    LET sent == IF p = "running" THEN <<Line("object", tool, arguments0)>> ELSE <<>>
    IN  IF tool.py # "str" \/ tool.s = ""
        THEN Effect(ErrResp(Lit("'tool' must be a non-empty string")), p, sent, <<>>, tasks)
        ELSE IF arguments0.py \notin {"dict", "None"}
        THEN Effect(ErrResp(Lit("'arguments' must be a dictionary")), p, sent, <<>>, tasks)
        ELSE IF NotRunning(p)
        THEN Effect(ErrResp(Lit("Server is not running. Call start() first.")),
                    p, <<>>, <<>>, tasks)
        ELSE Effect(ErrResp(Lit("Server disconnected: {detail}")), "exited", sent, <<>>, tasks)

MCPClient_request(p, tool, arguments0, fate, tasks) ==
    IF tool.py # "str" \/ tool.s = ""
    THEN Effect(ErrResp(Lit("'tool' must be a non-empty string")), p, <<>>, <<>>, tasks)
    ELSE LET arguments == IF arguments0.py = "None" THEN PyDict(NoArgs) ELSE arguments0
         IN  IF arguments.py # "dict"
             THEN Effect(ErrResp(Lit("'arguments' must be a dictionary")), p, <<>>, <<>>, tasks)
             ELSE IF NotRunning(p)
             THEN Effect(ErrResp(Lit("Server is not running. Call start() first.")),
                         p, <<>>, <<>>, tasks)
             ELSE LET request_line == Line("object", tool, arguments)
                  IN  IF p = "closing" THEN Escaped(p, tasks)
                      \* a write to a child that has exited fails (broken pipe)
                      ELSE IF fate = "dies_before_write"
                      THEN Effect(ErrResp(Lit("Failed to write to server stdin: {exc}")),
                                  "exited", <<>>, <<>>, tasks)
                      ELSE IF fate = "dies_before_reply"
                      THEN Effect(ErrResp(Lit("Server disconnected: {detail}")),
                                  "exited", <<request_line>>, <<>>, tasks)
                      ELSE IF fate # "alive"
                      THEN Effect(DecodeReply(GarbledLine(fate)), p,
                                  <<request_line>>, <<GarbledLine(fate)>>, tasks)
                      ELSE LET served == ServerMain(request_line, tasks)
                           IN  Effect(DecodeReply(served.out[1]), p,
                                      <<request_line>>, served.out, served.tasks)

\* start(): the child afterwards, whether a process was spawned, whether
\* RuntimeError was raised.  launch is what the operating system does:
\* "ok", "no_script" (the server script is missing), "oserror" (Popen fails)
Launches == {"ok", "no_script", "oserror"}
Started(p, spawn, raised) == [proc |-> p, spawn |-> spawn, raised |-> raised]

\* MCPClient_start without the test of line 32
MCPClient_start_AlwaysSpawn(p, launch) ==
    IF launch = "no_script" THEN Started(p, 0, TRUE)
    ELSE IF launch = "oserror" THEN Started(p, 0, TRUE)
    ELSE Started("running", 1, FALSE)

MCPClient_start(p, launch) ==
    IF p \in {"running", "closing"} THEN Started(p, 0, FALSE)
    ELSE IF launch = "no_script" THEN Started(p, 0, TRUE)
    ELSE IF launch = "oserror" THEN Started(p, 0, TRUE)
    ELSE Started("running", 1, FALSE)

\* close(): the child afterwards and whether an exception escaped.  death is
\* how the child reacts: "on_terminate" (exits within the timeout),
\* "on_kill" (only after the force-kill), "never" (not within the second
\* timeout either: wait raises TimeoutExpired and _proc is left set, with
\* the stdin of the child closed by lines 118-120)
Deaths == {"on_terminate", "on_kill", "never"}
Closed(p, raised) == [proc |-> p, raised |-> raised]

MCPClient_close(p, death) ==
    IF p = "none" THEN Closed(p, FALSE)
    ELSE IF p \in {"running", "closing"} /\ death = "never" THEN Closed("closing", TRUE)
    ELSE Closed("none", FALSE)

-----------------------------------------------------------------------------
(* agent.py: the goal validator *)

GoalValidationState(wants_add, wants_delete) ==
    [wants_add |-> wants_add, wants_delete |-> wants_delete,
     initial_count |-> NoCount, latest_count |-> NoCount,
     add_success_count |-> 0, delete_success_count |-> 0,
     saw_mutation |-> FALSE, saw_post_mutation_list |-> FALSE]

\* number of lines of the text that match _TASK_LINE_PATTERN
TaskLineMatches(t) == IF t.k = "{id}. {[x]|[ ]} {title}" THEN Len(t.l) ELSE 0

_parse_list_count(tool_result) ==
    IF tool_result.k = "No tasks yet." THEN 0
    ELSE IF TaskLineMatches(tool_result) > 0 THEN TaskLineMatches(tool_result)
    ELSE NoCount

_ADD_SUCCESS_PATTERN(t) == t.k = "Added task #{n}: {s}"
_DELETE_SUCCESS_PATTERN(t) == t.k = "Deleted task #{n}: {s}"
_DELETE_BULK_SUCCESS_PATTERN(t) == t.k = "Deleted {n} task(s): {ids}"

\* _update_validation_state counting every delete_task result as a success
_update_validation_state_AnyDelete(state, tool_name, tool_result) ==
    IF tool_name = "list_tasks" THEN
        LET count == _parse_list_count(tool_result)
        IN  IF count = NoCount THEN state
            ELSE [state EXCEPT
                    !.initial_count = IF @ = NoCount THEN count ELSE @,
                    !.latest_count = count,
                    !.saw_post_mutation_list = IF state.saw_mutation THEN TRUE ELSE @]
    ELSE IF tool_name = "add_task" /\ _ADD_SUCCESS_PATTERN(tool_result) THEN
        [state EXCEPT !.add_success_count = @ + 1, !.saw_mutation = TRUE]
    ELSE IF tool_name = "delete_task" THEN
        [state EXCEPT !.delete_success_count = @ + 1, !.saw_mutation = TRUE]
    ELSE IF tool_name = "delete_tasks" THEN
        IF ~_DELETE_BULK_SUCCESS_PATTERN(tool_result) THEN state
        ELSE IF tool_result.n > 0
        THEN [state EXCEPT !.delete_success_count = @ + tool_result.n,
                           !.saw_mutation = TRUE]
        ELSE state
    ELSE state

\* _update_validation_state starting the counters afresh at every listing
_update_validation_state_ResetOnList(state, tool_name, tool_result) ==
    IF tool_name = "list_tasks" THEN
        LET count == _parse_list_count(tool_result)
        IN  IF count = NoCount THEN state
            ELSE [state EXCEPT
                    !.initial_count = IF @ = NoCount THEN count ELSE @,
                    !.latest_count = count,
                    !.add_success_count = 0,
                    !.delete_success_count = 0,
                    !.saw_post_mutation_list = IF state.saw_mutation THEN TRUE ELSE @]
    ELSE IF tool_name = "add_task" /\ _ADD_SUCCESS_PATTERN(tool_result) THEN
        [state EXCEPT !.add_success_count = @ + 1, !.saw_mutation = TRUE]
    ELSE IF tool_name = "delete_task" /\ _DELETE_SUCCESS_PATTERN(tool_result) THEN
        [state EXCEPT !.delete_success_count = @ + 1, !.saw_mutation = TRUE]
    ELSE IF tool_name = "delete_tasks" THEN
        IF ~_DELETE_BULK_SUCCESS_PATTERN(tool_result) THEN state
        ELSE IF tool_result.n > 0
        THEN [state EXCEPT !.delete_success_count = @ + tool_result.n,
                           !.saw_mutation = TRUE]
        ELSE state
    ELSE state

\* _update_validation_state keeping latest_count in step with successful adds
_update_validation_state_CountsAdds(state, tool_name, tool_result) ==
    IF tool_name = "list_tasks" THEN
        LET count == _parse_list_count(tool_result)
        IN  IF count = NoCount THEN state
            ELSE [state EXCEPT
                    !.initial_count = IF @ = NoCount THEN count ELSE @,
                    !.latest_count = count,
                    !.saw_post_mutation_list = IF state.saw_mutation THEN TRUE ELSE @]
    ELSE IF tool_name = "add_task" /\ _ADD_SUCCESS_PATTERN(tool_result) THEN
        [state EXCEPT !.add_success_count = @ + 1, !.saw_mutation = TRUE,
                      !.latest_count = IF @ = NoCount THEN @ ELSE @ + 1]
    ELSE IF tool_name = "delete_task" /\ _DELETE_SUCCESS_PATTERN(tool_result) THEN
        [state EXCEPT !.delete_success_count = @ + 1, !.saw_mutation = TRUE]
    ELSE IF tool_name = "delete_tasks" THEN
        IF ~_DELETE_BULK_SUCCESS_PATTERN(tool_result) THEN state
        ELSE IF tool_result.n > 0
        THEN [state EXCEPT !.delete_success_count = @ + tool_result.n,
                           !.saw_mutation = TRUE]
        ELSE state
    ELSE state

_update_validation_state(state, tool_name, tool_result) ==
    IF tool_name = "list_tasks" THEN
        LET count == _parse_list_count(tool_result)
        IN  IF count = NoCount THEN state
            ELSE [state EXCEPT
                    !.initial_count = IF @ = NoCount THEN count ELSE @,
                    !.latest_count = count,
                    !.saw_post_mutation_list = IF state.saw_mutation THEN TRUE ELSE @]
    ELSE IF tool_name = "add_task" /\ _ADD_SUCCESS_PATTERN(tool_result) THEN
        [state EXCEPT !.add_success_count = @ + 1, !.saw_mutation = TRUE]
    ELSE IF tool_name = "delete_task" /\ _DELETE_SUCCESS_PATTERN(tool_result) THEN
        [state EXCEPT !.delete_success_count = @ + 1, !.saw_mutation = TRUE]
    ELSE IF tool_name = "delete_tasks" THEN
        IF ~_DELETE_BULK_SUCCESS_PATTERN(tool_result) THEN state
        ELSE IF tool_result.n > 0
        THEN [state EXCEPT !.delete_success_count = @ + tool_result.n,
                           !.saw_mutation = TRUE]
        ELSE state
    ELSE state

Verdict(ok, reason) == [ok |-> ok, reason |-> reason]

\* _validate_goal_completion accepting an add-only goal whose count did not
\* grow (`<` for `<=`)
_validate_goal_completion_AddNotStrict(state) ==
    IF ~state.wants_add /\ ~state.wants_delete
    THEN Verdict(TRUE, "No add/delete validation required.")
    ELSE IF state.wants_add /\ state.add_success_count < 1
    THEN Verdict(FALSE, "Goal requests add, but no successful add operation was observed.")
    ELSE IF state.wants_delete /\ state.delete_success_count < 1
    THEN Verdict(FALSE, "Goal requests delete, but no successful delete operation was observed.")
    ELSE IF state.initial_count = NoCount \/ state.latest_count = NoCount
    THEN Verdict(FALSE, "Need list output to compare task counts before and after operations.")
    ELSE IF state.saw_mutation /\ ~state.saw_post_mutation_list
    THEN Verdict(FALSE, "Need a final list verification after add/delete operations.")
    ELSE IF state.wants_add /\ ~state.wants_delete
            /\ state.latest_count < state.initial_count
    THEN Verdict(FALSE, "Add goal not satisfied: final task count did not increase.")
    ELSE IF state.wants_delete /\ ~state.wants_add
            /\ state.latest_count >= state.initial_count
    THEN Verdict(FALSE, "Delete goal not satisfied: final task count did not decrease.")
    ELSE IF state.wants_add /\ state.wants_delete
            /\ state.latest_count #
                 state.initial_count + state.add_success_count - state.delete_success_count
    THEN Verdict(FALSE, "Mixed add/delete validation mismatch: final count does not match operations.")
    ELSE Verdict(TRUE, "Validation passed.")

\* _validate_goal_completion without the arithmetic check of a mixed goal
_validate_goal_completion_MixedUnchecked(state) ==
    IF ~state.wants_add /\ ~state.wants_delete
    THEN Verdict(TRUE, "No add/delete validation required.")
    ELSE IF state.wants_add /\ state.add_success_count < 1
    THEN Verdict(FALSE, "Goal requests add, but no successful add operation was observed.")
    ELSE IF state.wants_delete /\ state.delete_success_count < 1
    THEN Verdict(FALSE, "Goal requests delete, but no successful delete operation was observed.")
    ELSE IF state.initial_count = NoCount \/ state.latest_count = NoCount
    THEN Verdict(FALSE, "Need list output to compare task counts before and after operations.")
    ELSE IF state.saw_mutation /\ ~state.saw_post_mutation_list
    THEN Verdict(FALSE, "Need a final list verification after add/delete operations.")
    ELSE IF state.wants_add /\ ~state.wants_delete
            /\ state.latest_count <= state.initial_count
    THEN Verdict(FALSE, "Add goal not satisfied: final task count did not increase.")
    ELSE IF state.wants_delete /\ ~state.wants_add
            /\ state.latest_count >= state.initial_count
    THEN Verdict(FALSE, "Delete goal not satisfied: final task count did not decrease.")
    ELSE Verdict(TRUE, "Validation passed.")

_validate_goal_completion(state) ==
    IF ~state.wants_add /\ ~state.wants_delete
    THEN Verdict(TRUE, "No add/delete validation required.")
    ELSE IF state.wants_add /\ state.add_success_count < 1
    THEN Verdict(FALSE, "Goal requests add, but no successful add operation was observed.")
    ELSE IF state.wants_delete /\ state.delete_success_count < 1
    THEN Verdict(FALSE, "Goal requests delete, but no successful delete operation was observed.")
    ELSE IF state.initial_count = NoCount \/ state.latest_count = NoCount
    THEN Verdict(FALSE, "Need list output to compare task counts before and after operations.")
    ELSE IF state.saw_mutation /\ ~state.saw_post_mutation_list
    THEN Verdict(FALSE, "Need a final list verification after add/delete operations.")
    ELSE IF state.wants_add /\ ~state.wants_delete
            /\ state.latest_count <= state.initial_count
    THEN Verdict(FALSE, "Add goal not satisfied: final task count did not increase.")
    ELSE IF state.wants_delete /\ ~state.wants_add
            /\ state.latest_count >= state.initial_count
    THEN Verdict(FALSE, "Delete goal not satisfied: final task count did not decrease.")
    ELSE IF state.wants_add /\ state.wants_delete
            /\ state.latest_count #
                 state.initial_count + state.add_success_count - state.delete_success_count
    THEN Verdict(FALSE, "Mixed add/delete validation mismatch: final count does not match operations.")
    ELSE Verdict(TRUE, "Validation passed.")

_build_validation_feedback(state, reason) ==
    IF state.wants_delete /\ state.delete_success_count < 1
    THEN Txt("Validation gate not satisfied. {s} Required next action: use the latest task list and delete matched ids (prefer delete_tasks for multiple ids), then call list_tasks to verify.",
             0, reason, <<>>)
    ELSE IF state.wants_delete /\ state.delete_success_count > 0
            /\ ~state.saw_post_mutation_list
    THEN Txt("Validation gate not satisfied. {s} Required next action: call list_tasks now to verify the post-delete state.",
             0, reason, <<>>)
    ELSE IF state.wants_add /\ state.add_success_count < 1
    THEN Txt("Validation gate not satisfied. {s} Required next action: call add_task for the requested items, then call list_tasks to verify.",
             0, reason, <<>>)
    ELSE Txt("Validation gate not satisfied. {s} Continue with required operations before final answer.",
             0, reason, <<>>)

-----------------------------------------------------------------------------
(* The inputs explored *)

\* goal texts: blank says goal.strip() is empty; add_marker / delete_marker
\* say whether _detect_goal_intents_keyword finds one of its markers
Goal(text, blank, add_marker, delete_marker) ==
    [text |-> text, blank |-> blank, add_marker |-> add_marker,
     delete_marker |-> delete_marker]
Goals == { Goal("", TRUE, FALSE, FALSE),
           Goal("add Buy milk, then list tasks", FALSE, TRUE, FALSE),
           Goal("delete task 7", FALSE, FALSE, TRUE) }

\* contents of tasks.json when the program starts
InitialStores == { <<>>, <<Task(1, "Buy milk", FALSE)>> }

\* tool calls the model may ask for (their ids are given by the gateway)
Call(name, arguments) == [name |-> name, arguments |-> arguments]
AddMilk == Call("add_task", PyJsonObject(ArgText("Buy milk")))
ListAll == Call("list_tasks", PyJsonObject(NoArgs))
Delete7 == Call("delete_task", PyJsonObject(ArgId(7)))
NoName == Call("", PyNone)
ToolCallLists == { <<AddMilk>>, <<ListAll>>, <<Delete7>>, <<AddMilk, ListAll>>, <<NoName>> }
\* assistant texts of a reply without tool calls
AssistantTexts == { Lit("Done."), EmptyText }

\* requests of the direct caller: tool and arguments values of any type
Req(tool, arguments) == [tool |-> tool, arguments |-> arguments]
CallerRequests ==
    { Req(PyStr("add_task"), PyDict(ArgText("Buy milk"))),
      Req(PyStr("add_task"), PyDict(NoArgs)),
      Req(PyStr("list_tasks"), PyDict(NoArgs)),
      Req(PyStr("list_tasks"), PyNone),
      Req(PyStr("list_tasks"), PyJsonObject(NoArgs)),
      Req(PyStr("list_tasks"), PyList),
      Req(PyStr("complete_task"), PyDict(ArgId(1))),
      Req(PyStr("delete_task"), PyDict(ArgId(1))),
      Req(PyStr("delete_task"), PyDict(ArgId(7))),
      Req(PyStr("delete_task"), PyDict(ArgBadId)),
      Req(PyStr("delete_tasks"), PyDict(ArgIds(<<1, 1>>))),
      Req(PyStr("rename_task"), PyDict(NoArgs)),
      Req(PyStr(""), PyDict(NoArgs)),
      Req(PyNone, PyDict(NoArgs)) }

-----------------------------------------------------------------------------
(* agent.py: run_agent *)

Msg(role, content, tool_calls, tool_call_id, name) ==
    [role |-> role, content |-> content, tool_calls |-> tool_calls,
     tool_call_id |-> tool_call_id, name |-> name]
SystemMsg(content) == Msg("system", content, <<>>, 0, "")
UserMsg(content) == Msg("user", content, <<>>, 0, "")
AssistantMsg(content, tool_calls) == Msg("assistant", content, tool_calls, 0, "")
ToolMsg(id, name, content) == Msg("tool", content, <<>>, id, name)

transportVars == << proc, wire, replies, store, spawned >>
callerVars == << lastResp, lastCall, nreq >>
driverVars == << observed, verdict, rt, gw, on_event >>
\* what no step of run_agent or of the direct caller changes
inputVars == << entry, goal, max_steps, store0, driverVars >>
loopVars == << step, messages, pending, vs, last_tool_result, gatewayCalls,
               nextCallId, callLog >>

\* a return statement of run_agent inside the try block (lines 467-593) with
\* the finally clause of lines 594-595: mcp_client.close() runs, and an
\* exception it raises replaces the value being returned
Return(kind, value, death) ==
    /\ exit' = kind
    /\ result' = value
    /\ LET c == MCPClient_close(proc, death)
       IN  /\ proc' = c.proc
           /\ outcome' = IF c.raised THEN "raised" ELSE "returned"
    /\ pc' = "done"

\* an exception that leaves run_agent before the try block is entered
Raise(kind) ==
    /\ exit' = kind
    /\ outcome' = "raised"
    /\ pc' = "done"
    /\ UNCHANGED result

\* Enter without the goal check of lines 426-427
Enter_NoGoalCheck(skills) ==
    /\ entry = "run_agent" /\ pc = "enter"
    /\ IF skills = "unreadable"
       THEN /\ exit' = "skill_routing"
            /\ result' = Lit("Unable to load skill file: {path}")
            /\ outcome' = "returned"
            /\ pc' = "done"
       ELSE /\ pc' = "start"
            /\ UNCHANGED << exit, result, outcome >>
    /\ UNCHANGED << inputVars, loopVars, transportVars, callerVars >>

\* lines 426-446: the goal check and build_system_prompt.  skills says
\* whether the selected skill files could be read (RuntimeError otherwise)
Enter(skills) ==
    /\ entry = "run_agent" /\ pc = "enter"
    /\ IF goal.blank
       THEN Raise("blank_goal")
       ELSE IF skills = "unreadable"
       THEN /\ exit' = "skill_routing"
            /\ result' = Lit("Unable to load skill file: {path}")
            /\ outcome' = "returned"
            /\ pc' = "done"
       ELSE /\ pc' = "start"
            /\ UNCHANGED << exit, result, outcome >>
    /\ UNCHANGED << inputVars, loopVars, transportVars, callerVars >>

\* lines 448-462: MCPClient(), start(), the first two messages
StartClient(launch) ==
    /\ entry = "run_agent" /\ pc = "start"
    /\ LET st == MCPClient_start(proc, launch)
       IN  /\ proc' = st.proc
           /\ spawned' = spawned + st.spawn
           /\ IF st.raised
              THEN Raise("start_failed") /\ UNCHANGED messages
              ELSE /\ pc' = "intent"
                   /\ messages' = << SystemMsg(Lit("{SYSTEM_PROMPT}[Loaded Skills]{skill_text}")),
                                     UserMsg(Lit(goal.text)) >>
                   /\ UNCHANGED << exit, result, outcome >>
    /\ UNCHANGED << inputVars, step, pending, vs, last_tool_result, gatewayCalls,
                    nextCallId, callLog, wire, replies, store, callerVars >>

\* _detect_goal_intents_hybrid: the router's validated booleans when routing
\* succeeded, the keyword heuristic when it failed
\* _detect_goal_intents_hybrid without the keyword fallback
_detect_goal_intents_hybrid_NoFallback(g, routed_ok, model_add, model_delete) ==
    IF routed_ok
    THEN [wants_add |-> model_add, wants_delete |-> model_delete]
    ELSE [wants_add |-> FALSE, wants_delete |-> FALSE]

_detect_goal_intents_hybrid(g, routed_ok, model_add, model_delete) ==
    IF routed_ok
    THEN [wants_add |-> model_add, wants_delete |-> model_delete]
    ELSE [wants_add |-> g.add_marker, wants_delete |-> g.delete_marker]

\* lines 470-477
DetectIntents(routed_ok, model_add, model_delete) ==
    /\ entry = "run_agent" /\ pc = "intent"
    /\ LET i == _detect_goal_intents_hybrid(goal, routed_ok, model_add, model_delete)
       IN  vs' = GoalValidationState(i.wants_add, i.wants_delete)
    /\ last_tool_result' = NoneText
    /\ pc' = "loop"
    /\ UNCHANGED << inputVars, step, messages, pending, gatewayCalls, nextCallId,
                    callLog, exit, result, outcome, transportVars, callerVars >>

\* LoopHasNext with the range running one step too far
LoopHasNext_OneMore(s, limit) == s <= limit

\* `for step in range(1, max_steps + 1)`: is there another iteration
LoopHasNext(s, limit) == s < limit

\* _format_openai_error_message: the text of the RuntimeError the completion
\* wrapper raises
GatewayErrorText ==
    Lit("OpenAI request failed for model '{model}'. Details: {message}. Please verify model access and API parameter compatibility.")

\* GatewayFail with the RuntimeError swallowed: the step ends and the loop
\* goes on
GatewayFail_Continue(death) ==
    /\ entry = "run_agent" /\ pc = "loop" /\ LoopHasNext(step, max_steps)
    /\ step' = step + 1
    /\ gatewayCalls' = gatewayCalls + 1
    /\ pc' = "loop"
    /\ UNCHANGED << inputVars, messages, pending, vs, last_tool_result, nextCallId,
                    callLog, exit, result, outcome, transportVars, callerVars >>

\* lines 482-492: the gateway call of a step raises RuntimeError
GatewayFail(death) ==
    /\ entry = "run_agent" /\ pc = "loop" /\ LoopHasNext(step, max_steps)
    /\ step' = step + 1
    /\ gatewayCalls' = gatewayCalls + 1
    /\ Return("openai_request", GatewayErrorText, death)
    /\ UNCHANGED << inputVars, messages, pending, vs, last_tool_result, nextCallId,
                    callLog, wire, replies, store, spawned, callerVars >>

\* the tool calls of an assistant message, with the ids the gateway gave them
WithIds(calls, first) ==
    [i \in 1..Len(calls) |->
        [id |-> first + i - 1, name |-> calls[i].name, arguments |-> calls[i].arguments]]

\* lines 482-499: the gateway call of a step answers; the assistant message
\* is appended as returned
ModelReply(text, calls) ==
    /\ entry = "run_agent" /\ pc = "loop" /\ LoopHasNext(step, max_steps)
    /\ step' = step + 1
    /\ gatewayCalls' = gatewayCalls + 1
    /\ LET tool_calls == WithIds(calls, nextCallId)
       IN  /\ messages' = Append(messages, AssistantMsg(text, tool_calls))
           /\ pending' = tool_calls
           /\ nextCallId' = nextCallId + Len(calls)
    /\ pc' = IF calls # <<>> THEN "tools" ELSE "decide"
    /\ UNCHANGED << inputVars, vs, last_tool_result, callLog, exit, result, outcome,
                    transportVars, callerVars >>

\* line 507: `call.function.arguments or ""`
ToolArgs(call) ==
    IF call.arguments.py = "None" THEN PyStr("") ELSE call.arguments

\* lines 517-521: the text taken from the response dict
ToolResultText(tool_response) ==
    IF tool_response.status = "ok"
    THEN IF tool_response.result = NoneText THEN Lit("OK") ELSE tool_response.result
    ELSE IF tool_response.error = NoneText
         THEN Lit("Unknown tool error") ELSE tool_response.error

\* lines 516-525: the text of one tool call, from the response dict or from
\* the exception request raised
ToolOutcomeText(eff, tool_name) ==
    IF eff.raised THEN Txt("Error executing tool '{s}': {exc}", 0, tool_name, <<>>)
    ELSE ToolResultText(eff.resp)

\* lines 527-528
\* KeepLastResult holding on to the first non-blank result
KeepLastResult_First(last, tool_result) ==
    IF last # NoneText THEN last
    ELSE IF ~IsBlank(tool_result) THEN tool_result ELSE last

KeepLastResult(last, tool_result) == IF ~IsBlank(tool_result) THEN tool_result ELSE last

\* AppendToolMessage echoing the id of the first tool call of the assistant
\* message instead of the id of the call executed
AppendToolMessage_FirstId(msgs, call, tool_result) ==
    LET asked == {i \in 1..Len(msgs) : msgs[i].role = "assistant"}
        last  == CHOOSE i \in asked : \A j \in asked : j <= i
    IN  Append(msgs, ToolMsg(msgs[last].tool_calls[1].id, call.name, tool_result))

\* lines 532-543: the tool message of one executed call
AppendToolMessage(msgs, call, tool_result) ==
    Append(msgs, ToolMsg(call.id, call.name, tool_result))

\* history of one processed tool call: live / after say whether the child was
\* running when request was called and when it returned
Logged(call, p, eff) ==
    [id |-> call.id, name |-> call.name, arguments |-> call.arguments,
     live |-> (p = "running"), after |-> (eff.proc = "running"),
     sent |-> eff.sent, answered |-> eff.answered, resp |-> eff.resp]

\* ExecToolCall taking the tool calls of the message from the end of the list
ExecToolCall_LastFirst(fate) ==
    /\ entry = "run_agent" /\ pc = "tools" /\ pending # <<>>
    /\ LET call == pending[Len(pending)]
           eff == MCPClient_request(proc, PyStr(call.name), ToolArgs(call), fate, store)
           tool_result == ToolOutcomeText(eff, call.name)
       IN  /\ proc' = eff.proc
           /\ wire' = wire \o eff.sent
           /\ replies' = replies \o eff.answered
           /\ store' = eff.tasks
           /\ last_tool_result' = KeepLastResult(last_tool_result, tool_result)
           /\ vs' = _update_validation_state(vs, call.name, tool_result)
           /\ messages' = AppendToolMessage(messages, call, tool_result)
           /\ callLog' = Append(callLog, Logged(call, proc, eff))
    /\ pending' = SubSeq(pending, 1, Len(pending) - 1)
    /\ pc' = IF Len(pending) = 1 THEN "loop" ELSE "tools"
    /\ UNCHANGED << inputVars, step, gatewayCalls, nextCallId, exit, result, outcome,
                    spawned, callerVars >>

\* lines 505-544: one iteration of `for call in tool_calls`; after the last
\* one the step ends with `continue`.
ExecToolCall(fate) ==
    /\ entry = "run_agent" /\ pc = "tools" /\ pending # <<>>
    /\ LET call == Head(pending)
           eff == MCPClient_request(proc, PyStr(call.name), ToolArgs(call), fate, store)
           tool_result == ToolOutcomeText(eff, call.name)
       IN  /\ proc' = eff.proc
           /\ wire' = wire \o eff.sent
           /\ replies' = replies \o eff.answered
           /\ store' = eff.tasks
           /\ last_tool_result' = KeepLastResult(last_tool_result, tool_result)
           /\ vs' = _update_validation_state(vs, call.name, tool_result)
           /\ messages' = AppendToolMessage(messages, call, tool_result)
           /\ callLog' = Append(callLog, Logged(call, proc, eff))
    /\ pending' = Tail(pending)
    /\ pc' = IF Tail(pending) = <<>> THEN "loop" ELSE "tools"
    /\ UNCHANGED << inputVars, step, gatewayCalls, nextCallId, exit, result, outcome,
                    spawned, callerVars >>

\* lines 546-588: what a step without tool calls does
Decision(kind, value) == [kind |-> kind, value |-> value]

\* StopDecision returning a non-empty text without asking the validator
StopDecision_Unvalidated(state, assistant_text, last) ==
    LET v == _validate_goal_completion(state)
    IN  IF ~IsBlank(assistant_text)
        THEN Decision("final_answer", assistant_text)
        ELSE IF ~v.ok
             THEN Decision("not_done", _build_validation_feedback(state, v.reason))
             ELSE IF last # NoneText
             THEN Decision("empty_response_with_tool_fallback", last)
             ELSE Decision("empty_response", Lit("No final answer produced."))

\* StopDecision with the validator consulted only for a non-empty text: an
\* empty reply ends the run
StopDecision_EmptyEnds(state, assistant_text, last) ==
    LET v == _validate_goal_completion(state)
    IN  IF ~IsBlank(assistant_text)
        THEN IF ~v.ok
             THEN Decision("not_done", _build_validation_feedback(state, v.reason))
             ELSE Decision("final_answer", assistant_text)
        ELSE IF last # NoneText
             THEN Decision("empty_response_with_tool_fallback", last)
             ELSE Decision("empty_response", Lit("No final answer produced."))

StopDecision(state, assistant_text, last) ==
    LET v == _validate_goal_completion(state)
    IN  IF ~IsBlank(assistant_text)
        THEN IF ~v.ok
             THEN Decision("not_done", _build_validation_feedback(state, v.reason))
             ELSE Decision("final_answer", assistant_text)
        ELSE IF ~v.ok
             THEN Decision("not_done", _build_validation_feedback(state, v.reason))
             ELSE IF last # NoneText
             THEN Decision("empty_response_with_tool_fallback", last)
             ELSE Decision("empty_response", Lit("No final answer produced."))

AssistantText == messages[Len(messages)].content

\* lines 550-558 and 567-575: the validator is not satisfied
Reject ==
    /\ entry = "run_agent" /\ pc = "decide"
    /\ LET d == StopDecision(vs, AssistantText, last_tool_result)
       IN  /\ d.kind = "not_done"
           /\ messages' = Append(messages, SystemMsg(d.value))
    /\ pc' = "loop"
    /\ UNCHANGED << inputVars, step, pending, vs, last_tool_result, gatewayCalls,
                    nextCallId, callLog, exit, result, outcome, transportVars,
                    callerVars >>

\* lines 560-562 and 577-588: the run returns an answer
Answer(death) ==
    /\ entry = "run_agent" /\ pc = "decide"
    /\ LET d == StopDecision(vs, AssistantText, last_tool_result)
       IN  /\ d.kind # "not_done"
           /\ Return(d.kind, d.value, death)
    /\ UNCHANGED << inputVars, loopVars, wire, replies, store, spawned, callerVars >>

\* lines 590-593: the loop ran out of steps
StepCap(death) ==
    /\ entry = "run_agent" /\ pc = "loop" /\ ~LoopHasNext(step, max_steps)
    /\ Return("max_steps", Txt("Stopped after reaching max_steps={n}.", max_steps, "", <<>>),
              death)
    /\ UNCHANGED << inputVars, loopVars, wire, replies, store, spawned, callerVars >>

\* the child process exits on its own (crash, kill from outside)
ChildExit ==
    /\ proc \in {"running", "closing"} /\ pc # "done"
    /\ proc' = "exited"
    /\ UNCHANGED << inputVars, loopVars, pc, exit, result, outcome, wire, replies,
                    store, spawned, callerVars >>

-----------------------------------------------------------------------------
(* A direct caller of MCPClient (mcp_client.py lines 144-147 call it this   *)
(* way): any sequence of start, request and close calls.                    *)

Called(op, tool, arguments, p, raised) ==
    [op |-> op, tool |-> tool, arguments |-> arguments, proc |-> p, raised |-> raised]
NoCall == Called("", PyNone, PyNone, "none", FALSE)

runVars == << loopVars, exit, result, outcome >>

CallerStart(launch) ==
    /\ entry = "mcp_client" /\ nreq < MaxRequests
    /\ LET st == MCPClient_start(proc, launch)
       IN  /\ proc' = st.proc
           /\ spawned' = spawned + st.spawn
           /\ lastCall' = Called("start", PyNone, PyNone, proc, st.raised)
    /\ nreq' = nreq + 1
    /\ UNCHANGED << inputVars, pc, runVars, wire, replies, store, lastResp >>

\* the lines the server may find on its stdin
ServerLines ==
    { Line("blank", PyMissing, PyMissing),
      Line("invalid", PyMissing, PyMissing),
      Line("array", PyMissing, PyMissing),
      Line("object", PyMissing, PyDict(NoArgs)),
      Line("object", PyStr("add_task"), PyDict(ArgText("Buy milk"))),
      Line("object", PyStr("add_task"), PyMissing),
      Line("object", PyStr("list_tasks"), PyMissing),
      Line("object", PyStr("list_tasks"), PyNone),
      Line("object", PyStr("complete_task"), PyDict(ArgId(1))),
      Line("object", PyStr("delete_task"), PyDict(ArgId(1))),
      Line("object", PyStr("delete_task"), PyDict(ArgBadId)),
      Line("object", PyStr("delete_task"), PyDict(ArgTrueId)),
      Line("object", PyStr("delete_tasks"), PyDict(ArgIds(<<2, 1, 2>>))),
      Line("object", PyStr("delete_tasks"), PyDict(ArgIds(<<7, 7>>))),
      Line("object", PyStr("rename_task"), PyDict(NoArgs)) }

\* tasks.json when the server starts
ServerStores == InitialStores \cup { Unreadable }

\* main(), lines 115-125: the next line of stdin is read and answered
ServeLine(line) ==
    /\ entry = "mcp_server" /\ pc = "serve" /\ Len(wire) < MaxLines
    /\ LET r == ServerMain(line, store)
       IN  /\ wire' = Append(wire, line)
           /\ replies' = replies \o r.out
           /\ store' = r.tasks
           /\ lastResp' = IF r.out = <<>> THEN NoResp ELSE r.out[1]
    /\ nreq' = nreq + 1
    /\ UNCHANGED << inputVars, pc, runVars, proc, spawned, lastCall >>

\* main(): stdin is at end of file, the loop and the process end
ServerEOF ==
    /\ entry = "mcp_server" /\ pc = "serve"
    /\ pc' = "eof"
    /\ UNCHANGED << inputVars, runVars, transportVars, callerVars >>

CallerRequest(tool, arguments, fate) ==
    /\ entry = "mcp_client" /\ nreq < MaxRequests
    /\ LET eff == MCPClient_request(proc, tool, arguments, fate, store)
       IN  /\ proc' = eff.proc
           /\ wire' = wire \o eff.sent
           /\ replies' = replies \o eff.answered
           /\ store' = eff.tasks
           /\ lastResp' = eff.resp
           /\ lastCall' = Called("request", tool, arguments, proc, eff.raised)
    /\ nreq' = nreq + 1
    /\ UNCHANGED << inputVars, pc, runVars, spawned >>

CallerClose(death) ==
    /\ entry = "mcp_client" /\ nreq < MaxRequests
    /\ LET c == MCPClient_close(proc, death)
       IN  /\ proc' = c.proc
           /\ lastCall' = Called("close", PyNone, PyNone, proc, c.raised)
    /\ nreq' = nreq + 1
    /\ UNCHANGED << inputVars, pc, runVars, wire, replies, store, spawned, lastResp >>

-----------------------------------------------------------------------------
(* The validator applied to served tool results: what lines 517-530 of      *)
(* run_agent do with the response dict of a request the Tool Executor has   *)
(* served, followed by the validator call of lines 549 / 566.               *)

\* the tool requests served
FoldRequests ==
    { Req(PyStr("add_task"), PyDict(ArgText("Buy milk"))),
      Req(PyStr("add_task"), PyDict(NoArgs)),
      Req(PyStr("list_tasks"), PyDict(NoArgs)),
      Req(PyStr("delete_task"), PyDict(ArgId(1))),
      Req(PyStr("delete_task"), PyDict(ArgId(7))),
      Req(PyStr("delete_tasks"), PyDict(ArgIds(<<1, 2>>))),
      Req(PyStr("delete_tasks"), PyDict(ArgIds(<<7>>))) }

\* FoldRequests and: complete_task, a list_tasks request the server rejects
ListingRequests ==
    FoldRequests \cup
    { Req(PyStr("complete_task"), PyDict(ArgId(1))),
      Req(PyStr("list_tasks"), PyDict(ArgText("Buy milk"))) }

Observed(tool_name, tool_result) == [name |-> tool_name, result |-> tool_result]

\* the validator's answer and, when it is not satisfied, the corrective text
Checked(state) ==
    LET v == _validate_goal_completion(state)
    IN  [checked |-> TRUE, ok |-> v.ok, reason |-> v.reason,
         feedback |-> IF v.ok THEN NoneText
                      ELSE _build_validation_feedback(state, v.reason)]
NoVerdict == [checked |-> FALSE, ok |-> FALSE, reason |-> "", feedback |-> NoneText]

\* lines 517-530: the result text of one served request is folded in
Observe(tool, arguments) ==
    /\ entry = "validator" /\ Len(observed) < MaxObserved
    /\ LET h == handle_request(Line("object", tool, arguments), store)
           tool_result == ToolResultText(h.resp)
       IN  /\ store' = h.tasks
           /\ last_tool_result' = KeepLastResult(last_tool_result, tool_result)
           /\ vs' = _update_validation_state(vs, tool.s, tool_result)
           /\ observed' = Append(observed, Observed(tool.s, tool_result))
    /\ verdict' = NoVerdict
    /\ UNCHANGED << entry, goal, max_steps, store0, rt, gw, on_event, pc, step, messages, pending,
                    gatewayCalls, nextCallId, callLog, exit, result, outcome,
                    proc, wire, replies, spawned, callerVars >>

\* lines 549-555 / 566-572: the validator is asked
Validate ==
    /\ entry = "validator" /\ ~verdict.checked
    /\ verdict' = Checked(vs)
    /\ UNCHANGED << entry, goal, max_steps, store0, observed, rt, gw, on_event, pc, loopVars, exit,
                    result, outcome, transportVars, callerVars >>

-----------------------------------------------------------------------------
(* skill_router.py *)

ALLOWED_SKILLS ==
    << "always_on", "task_planning", "task_deletion", "status_reporting", "output_format" >>

\* a JSON value of a model output: its Python type after json.loads ("none":
\* the key is absent) and its content
JsonList(all_str, items) == [type |-> "list", all_str |-> all_str, items |-> items]
JsonOther(type) == [type |-> type, all_str |-> FALSE, items |-> <<>>]
JsonFlag(type, b) == [type |-> type, b |-> b]
JsonText(type, t) == [type |-> type, s |-> t]

\* what one call of call_model_fn does: it raises, or it returns a string;
\* json says how the string parses ("invalid", "array", "object"), keys are
\* the keys of the object, the other fields their values
RawOut(raises, json, keys, skills, wants_add, wants_delete, reason) ==
    [raises |-> raises, json |-> json, keys |-> keys, skills |-> skills,
     wants_add |-> wants_add, wants_delete |-> wants_delete, reason |-> reason]
Raises == RawOut(TRUE, "invalid", {}, JsonOther("none"), JsonFlag("none", FALSE),
                 JsonFlag("none", FALSE), JsonText("none", ""))
NotJson == RawOut(FALSE, "invalid", {}, JsonOther("none"), JsonFlag("none", FALSE),
                  JsonFlag("none", FALSE), JsonText("none", ""))
ArrayRoot == RawOut(FALSE, "array", {}, JsonOther("none"), JsonFlag("none", FALSE),
                    JsonFlag("none", FALSE), JsonText("none", ""))
SkillsOut(keys, skills, reason) ==
    RawOut(FALSE, "object", keys, skills, JsonFlag("none", FALSE),
           JsonFlag("none", FALSE), reason)
IntentOut(keys, wants_add, wants_delete, reason) ==
    RawOut(FALSE, "object", keys, JsonOther("none"), wants_add, wants_delete, reason)

\* the tuple a validation or a router function returns: ok, the skill list,
\* the intent dict (has: it is not the empty dict), the reason string as a text
Routed(ok, skills, intent, reason) ==
    [ok |-> ok, skills |-> skills, intent |-> intent, reason |-> reason]
NoIntent == [has |-> FALSE, wants_add |-> FALSE, wants_delete |-> FALSE]
Intent(wants_add, wants_delete) ==
    [has |-> TRUE, wants_add |-> wants_add, wants_delete |-> wants_delete]
Invalid(reason) == Routed(FALSE, <<>>, NoIntent, Lit(reason))

_validate_router_output(raw_output) ==
    IF raw_output.json = "invalid" THEN Invalid("Output is not valid JSON.")
    ELSE IF raw_output.json # "object" THEN Invalid("JSON root must be an object.")
    ELSE IF raw_output.keys # {"skills", "reason"}
    THEN Invalid("JSON keys must be exactly ['skills', 'reason'] with no extras.")
    ELSE IF raw_output.skills.type # "list" THEN Invalid("skills must be a JSON array.")
    ELSE IF ~raw_output.skills.all_str THEN Invalid("skills must contain only strings.")
    ELSE LET skills == raw_output.skills.items
             allowed == {ALLOWED_SKILLS[i] : i \in 1..Len(ALLOWED_SKILLS)}
         IN  IF Len(skills) # Cardinality({skills[i] : i \in 1..Len(skills)})
             THEN Invalid("skills must not contain duplicates.")
             ELSE IF \E i \in 1..Len(skills) : skills[i] \notin allowed
             THEN Invalid("Unknown skills: {unknown}.")
             ELSE IF raw_output.reason.type # "str"
             THEN Invalid("reason must be a string.")
             ELSE Routed(TRUE, skills, NoIntent, Lit(raw_output.reason.s))

\* _validate_intent_output testing the flags for truthiness, not for their type
_validate_intent_output_Truthy(raw_output) ==
    IF raw_output.json = "invalid" THEN Invalid("Output is not valid JSON.")
    ELSE IF raw_output.json # "object" THEN Invalid("JSON root must be an object.")
    ELSE IF raw_output.keys # {"wants_add", "wants_delete", "reason"}
    THEN Invalid("JSON keys must be exactly ['wants_add', 'wants_delete', 'reason'] with no extras.")
    ELSE IF raw_output.reason.type # "str" THEN Invalid("reason must be a string.")
    ELSE Routed(TRUE, <<>>, Intent(raw_output.wants_add.b, raw_output.wants_delete.b),
                Lit(raw_output.reason.s))

_validate_intent_output(raw_output) ==
    IF raw_output.json = "invalid" THEN Invalid("Output is not valid JSON.")
    ELSE IF raw_output.json # "object" THEN Invalid("JSON root must be an object.")
    ELSE IF raw_output.keys # {"wants_add", "wants_delete", "reason"}
    THEN Invalid("JSON keys must be exactly ['wants_add', 'wants_delete', 'reason'] with no extras.")
    ELSE IF raw_output.wants_add.type # "bool" THEN Invalid("wants_add must be a boolean.")
    ELSE IF raw_output.wants_delete.type # "bool"
    THEN Invalid("wants_delete must be a boolean.")
    ELSE IF raw_output.reason.type # "str" THEN Invalid("reason must be a string.")
    ELSE Routed(TRUE, <<>>, Intent(raw_output.wants_add.b, raw_output.wants_delete.b),
                Lit(raw_output.reason.s))

\* _build_routing_prompt / _build_intent_prompt: the retry block is part of
\* the prompt when validation_error is a non-empty string
BuildPrompt(validation_error) ==
    [retry_block |-> validation_error # "", validation_error |-> validation_error]

\* the model outputs explored
SkillOutputs ==
    { Raises, NotJson, ArrayRoot,
      SkillsOut({"skills", "reason", "extra"}, JsonList(TRUE, <<"always_on">>),
                JsonText("str", "r")),
      SkillsOut({"skills"}, JsonList(TRUE, <<"always_on">>), JsonText("none", "")),
      SkillsOut({"skills", "reason"}, JsonOther("str"), JsonText("str", "r")),
      SkillsOut({"skills", "reason"}, JsonList(FALSE, <<>>), JsonText("str", "r")),
      SkillsOut({"skills", "reason"}, JsonList(TRUE, <<"task_planning", "task_planning">>),
                JsonText("str", "r")),
      SkillsOut({"skills", "reason"}, JsonList(TRUE, <<"always_on", "cooking">>),
                JsonText("str", "r")),
      SkillsOut({"skills", "reason"}, JsonList(TRUE, <<"always_on">>), JsonText("int", "")),
      SkillsOut({"skills", "reason"}, JsonList(TRUE, <<>>), JsonText("str", "nothing needed")),
      SkillsOut({"skills", "reason"}, JsonList(TRUE, <<"task_deletion">>),
                JsonText("str", "delete goal")),
      SkillsOut({"skills", "reason"}, JsonList(TRUE, <<"output_format", "always_on">>),
                JsonText("str", "format goal")),
      SkillsOut({"skills", "reason"}, JsonList(TRUE, <<"status_reporting", "task_planning">>),
                JsonText("str", "plan and report")) }

IntentOutputs ==
    { Raises, NotJson, ArrayRoot,
      IntentOut({"wants_add", "wants_delete", "reason", "extra"},
                JsonFlag("bool", TRUE), JsonFlag("bool", FALSE), JsonText("str", "r")),
      IntentOut({"wants_add", "reason"},
                JsonFlag("bool", TRUE), JsonFlag("none", FALSE), JsonText("str", "r")),
      IntentOut({"wants_add", "wants_delete", "reason"},
                JsonFlag("str", TRUE), JsonFlag("bool", FALSE), JsonText("str", "r")),
      IntentOut({"wants_add", "wants_delete", "reason"},
                JsonFlag("bool", TRUE), JsonFlag("int", TRUE), JsonText("str", "r")),
      IntentOut({"wants_add", "wants_delete", "reason"},
                JsonFlag("bool", TRUE), JsonFlag("bool", FALSE), JsonText("null", "")),
      IntentOut({"wants_add", "wants_delete", "reason"},
                JsonFlag("bool", TRUE), JsonFlag("bool", FALSE), JsonText("str", "add goal")),
      IntentOut({"wants_add", "wants_delete", "reason"},
                JsonFlag("bool", FALSE), JsonFlag("bool", TRUE), JsonText("str", "delete goal")) }

\* one invocation: fn is the function called ("skills": route_skills_with_model,
\* "intent": route_goal_intent_with_model); blank says the goal is not a
\* non-empty string; i counts the iterations of the loop that have ended;
\* prompts and outs are the prompts built and what call_model_fn did with
\* them; ret is the tuple returned; raised says an exception left the function
\* selected and route_reason are what _route_skill_names returned for it
Route(fn, blank, max_attempts, i, last_error, prompts, outs, ret, raised) ==
    [fn |-> fn, blank |-> blank, max_attempts |-> max_attempts, i |-> i,
     last_error |-> last_error, prompts |-> prompts, outs |-> outs,
     ret |-> ret, raised |-> raised, selected |-> <<>>, route_reason |-> NoneText]
NoReturn == Routed(FALSE, <<>>, NoIntent, NoneText)
NoRoute == Route("", FALSE, 0, 0, "", <<>>, <<>>, NoReturn, FALSE)

RouterOutputs(fn) == IF fn = "skills" THEN SkillOutputs ELSE IntentOutputs
ValidateOutput(fn, raw_output) ==
    IF fn = "skills" THEN _validate_router_output(raw_output)
    ELSE _validate_intent_output(raw_output)
ExhaustedText(fn, n, last_error) ==
    IF fn = "skills"
    THEN Txt("Routing failed after {n} attempt(s): {s}", n, last_error, <<>>)
    ELSE Txt("Intent routing failed after {n} attempt(s): {s}", n, last_error, <<>>)

routerFrame == << entry, goal, max_steps, store0, observed, verdict, gw, on_event, loopVars, exit,
                  result, outcome, transportVars, callerVars >>

\* lines 189-194 / 218-223: the argument checks
RouteEnter ==
    /\ entry = "router" /\ pc = "route"
    /\ IF rt.blank
       THEN /\ rt' = [rt EXCEPT !.ret = Invalid("Goal must be a non-empty string.")]
            /\ pc' = "routed"
       ELSE IF rt.max_attempts < 1
       THEN /\ rt' = [rt EXCEPT !.ret = Invalid("max_attempts must be at least 1.")]
            /\ pc' = "routed"
       ELSE /\ rt' = [rt EXCEPT !.last_error = "No attempts were made."]
            /\ pc' = "attempt"
    /\ UNCHANGED routerFrame

\* RouteAttempt without the try / except around the model call
RouteAttempt_Unguarded(out) ==
    /\ entry = "router" /\ pc = "attempt" /\ rt.i < rt.max_attempts
    /\ out \in RouterOutputs(rt.fn)
    /\ LET prompt == BuildPrompt(rt.last_error)
           called == [rt EXCEPT !.prompts = Append(@, prompt), !.outs = Append(@, out)]
           v == ValidateOutput(rt.fn, out)
       IN  IF out.raises
           THEN /\ rt' = [called EXCEPT !.raised = TRUE]
                /\ pc' = "routed"
           ELSE IF v.ok
           THEN /\ rt' = [called EXCEPT !.ret = v]
                /\ pc' = "routed"
           ELSE /\ rt' = [called EXCEPT !.last_error = v.reason.k, !.i = @ + 1]
                /\ pc' = "attempt"
    /\ UNCHANGED routerFrame

\* RouteAttempt going on to the next attempt after a valid output
RouteAttempt_KeepsCalling(out) ==
    /\ entry = "router" /\ pc = "attempt" /\ rt.i < rt.max_attempts
    /\ out \in RouterOutputs(rt.fn)
    /\ LET prompt == BuildPrompt(rt.last_error)
           called == [rt EXCEPT !.prompts = Append(@, prompt), !.outs = Append(@, out)]
           v == ValidateOutput(rt.fn, out)
       IN  IF out.raises
           THEN /\ rt' = [called EXCEPT !.last_error = "Model call failed: {exc}", !.i = @ + 1]
                /\ pc' = "attempt"
           ELSE IF v.ok /\ rt.i + 1 = rt.max_attempts
           THEN /\ rt' = [called EXCEPT !.ret = v]
                /\ pc' = "routed"
           ELSE /\ rt' = [called EXCEPT !.last_error = v.reason.k, !.i = @ + 1]
                /\ pc' = "attempt"
    /\ UNCHANGED routerFrame

\* RouteAttempt keeping the first validation error for every later prompt
RouteAttempt_StaleError(out) ==
    /\ entry = "router" /\ pc = "attempt" /\ rt.i < rt.max_attempts
    /\ out \in RouterOutputs(rt.fn)
    /\ LET prompt == BuildPrompt(rt.last_error)
           called == [rt EXCEPT !.prompts = Append(@, prompt), !.outs = Append(@, out)]
           v == ValidateOutput(rt.fn, out)
           kept == IF rt.i = 0 THEN v.reason.k ELSE rt.last_error
       IN  IF out.raises
           THEN /\ rt' = [called EXCEPT !.last_error = "Model call failed: {exc}", !.i = @ + 1]
                /\ pc' = "attempt"
           ELSE IF v.ok
           THEN /\ rt' = [called EXCEPT !.ret = v]
                /\ pc' = "routed"
           ELSE /\ rt' = [called EXCEPT !.last_error = kept, !.i = @ + 1]
                /\ pc' = "attempt"
    /\ UNCHANGED routerFrame

\* lines 195-207 / 224-236: one iteration of `for _ in range(max_attempts)`
RouteAttempt(out) ==
    /\ entry = "router" /\ pc = "attempt" /\ rt.i < rt.max_attempts
    /\ out \in RouterOutputs(rt.fn)
    /\ LET prompt == BuildPrompt(rt.last_error)
           called == [rt EXCEPT !.prompts = Append(@, prompt), !.outs = Append(@, out)]
           v == ValidateOutput(rt.fn, out)
       IN  IF out.raises
           THEN /\ rt' = [called EXCEPT !.last_error = "Model call failed: {exc}", !.i = @ + 1]
                /\ pc' = "attempt"
           ELSE IF v.ok
           THEN /\ rt' = [called EXCEPT !.ret = v]
                /\ pc' = "routed"
           ELSE /\ rt' = [called EXCEPT !.last_error = v.reason.k, !.i = @ + 1]
                /\ pc' = "attempt"
    /\ UNCHANGED routerFrame

\* RouteExhausted giving up one attempt early
RouteExhausted_OneShort ==
    /\ entry = "router" /\ pc = "attempt" /\ rt.i + 1 >= rt.max_attempts
    /\ rt' = [rt EXCEPT !.ret = Routed(FALSE, <<>>, NoIntent,
                                       ExhaustedText(rt.fn, rt.max_attempts, rt.last_error))]
    /\ pc' = "routed"
    /\ UNCHANGED routerFrame

\* lines 209 / 238: the attempts are used up
RouteExhausted ==
    /\ entry = "router" /\ pc = "attempt" /\ rt.i >= rt.max_attempts
    /\ rt' = [rt EXCEPT !.ret = Routed(FALSE, <<>>, NoIntent,
                                       ExhaustedText(rt.fn, rt.max_attempts, rt.last_error))]
    /\ pc' = "routed"
    /\ UNCHANGED routerFrame

ROUTER_MAX_ATTEMPTS == 3

\* goals a router function is called with
RouterGoals ==
    Goals \cup { Goal("show my tasks", FALSE, FALSE, FALSE),
                 Goal("add Buy milk and delete task 1", FALSE, TRUE, TRUE) }

\* _route_skill_names returning the routed list as the model gave it
_route_skill_names_AsRouted(routed) ==
    IF ~routed.ok
    THEN [names |-> <<"always_on">>,
          reason |-> Txt("router_fail_fallback: {reason}", routed.reason.n,
                         routed.reason.s, <<>>)]
    ELSE [names |-> routed.skills, reason |-> routed.reason]

\* agent.py lines 136-145: what _route_skill_names makes of the tuple
\* route_skills_with_model returned
_route_skill_names(routed) ==
    IF ~routed.ok
    THEN [names |-> <<"always_on">>,
          reason |-> Txt("router_fail_fallback: {reason}", routed.reason.n,
                         routed.reason.s, <<>>)]
    ELSE LET optional_skills == SelectSeq(routed.skills, LAMBDA skill : skill # "always_on")
             chosen == {optional_skills[i] : i \in 1..Len(optional_skills)}
             ordered_optional == SelectSeq(ALLOWED_SKILLS, LAMBDA skill : skill \in chosen)
         IN  [names |-> <<"always_on">> \o ordered_optional, reason |-> routed.reason]

\* agent.py lines 133-145: route_skills_with_model(goal, routed_call,
\* max_attempts=3) has returned to _route_skill_names
RouteSkillNames ==
    /\ entry = "router" /\ pc = "routed"
    /\ rt.fn = "skills" /\ rt.max_attempts = 3
    /\ LET r == _route_skill_names(rt.ret)
       IN  rt' = [rt EXCEPT !.selected = r.names, !.route_reason = r.reason]
    /\ pc' = "selected"
    /\ UNCHANGED routerFrame

\* agent.py lines 470-477: route_goal_intent_with_model(goal, routed_call,
\* ROUTER_MAX_ATTEMPTS) has returned to _detect_goal_intents_hybrid, called by
\* run_agent (whose goal is not blank) right before the step loop
IntentRouted ==
    /\ entry = "router" /\ pc = "routed"
    /\ rt.fn = "intent" /\ rt.max_attempts = ROUTER_MAX_ATTEMPTS /\ ~goal.blank
    /\ LET i == _detect_goal_intents_hybrid(goal, rt.ret.ok, rt.ret.intent.wants_add,
                                            rt.ret.intent.wants_delete)
       IN  vs' = GoalValidationState(i.wants_add, i.wants_delete)
    /\ last_tool_result' = NoneText
    /\ pc' = "loop"
    /\ UNCHANGED << inputVars, step, messages, pending, gatewayCalls, nextCallId,
                    callLog, exit, result, outcome, transportVars, callerVars >>

-----------------------------------------------------------------------------
(* agent.py: the gateway wrapper _create_chat_completion_with_token_compat *)

token_param_candidates == << "max_completion_tokens", "max_tokens" >>
TokenParams == {token_param_candidates[i] : i \in 1..Len(token_param_candidates)}

\* what the endpoint does with one call of client.chat.completions.create:
\* it answers, or it raises an exception whose str() contains
\* "unsupported_parameter" or not, and the quoted parameter names in quoted
Served == [ok |-> TRUE, unsupported_parameter |-> FALSE, quoted |-> {}]
Failure(unsupported_parameter, quoted) ==
    [ok |-> FALSE, unsupported_parameter |-> unsupported_parameter, quoted |-> quoted]
EndpointOutcomes ==
    {Served} \cup {Failure(u, q) : u \in BOOLEAN, q \in SUBSET TokenParams}

\* _is_unsupported_token_param_error testing only for "unsupported_parameter"
_is_unsupported_token_param_error_AnyParam(exc, param_name) ==
    exc.unsupported_parameter

_is_unsupported_token_param_error(exc, param_name) ==
    exc.unsupported_parameter /\ param_name \in exc.quoted

\* the RuntimeError message: the model name and str(exc) embedded
_format_openai_error_message(exc, model) ==
    [k |-> "OpenAI request failed for model '{model}'. Details: {message}. Please verify model access and API parameter compatibility.",
     model |-> model, message |-> exc]

Models == {"gpt-4.1-mini", "gpt-4o", "o3-mini"}
EndpointCall(token_param, raw) == [token_param |-> token_param, outcome |-> raw]
\* how one call of the wrapper ended: "none" while it runs
GatewayReturn(kind, error) == [kind |-> kind, error |-> error]
NoGatewayError == [k |-> "<None>", model |-> "", message |-> Served]
Gateway(model, completions, idx, calls, ret) ==
    [model |-> model, completions |-> completions, idx |-> idx, calls |-> calls, ret |-> ret]
NoGateway == Gateway("", 0, 0, <<>>, GatewayReturn("none", NoGatewayError))

gatewayFrame == << entry, goal, max_steps, store0, observed, verdict, rt, on_event, loopVars,
                   exit, result, outcome, transportVars, callerVars >>

\* line 382: the wrapper is called
GatewayBegin ==
    /\ entry = "gateway" /\ pc = "gateway" /\ gw.completions < MaxCompletions
    /\ gw' = Gateway(gw.model, gw.completions + 1, 0, <<>>, GatewayReturn("none", NoGatewayError))
    /\ pc' = "create"
    /\ UNCHANGED gatewayFrame

\* lines 390-412: one iteration of the loop over the candidates
GatewayCreate(raw) ==
    /\ entry = "gateway" /\ pc = "create" /\ gw.idx < Len(token_param_candidates)
    /\ LET token_param == token_param_candidates[gw.idx + 1]
           called == [gw EXCEPT !.calls = Append(@, EndpointCall(token_param, raw))]
           is_last_attempt == gw.idx = Len(token_param_candidates) - 1
       IN  IF raw.ok
           THEN /\ gw' = [called EXCEPT !.ret = GatewayReturn("response", NoGatewayError)]
                /\ pc' = "gateway"
           ELSE IF _is_unsupported_token_param_error(raw, token_param) /\ ~is_last_attempt
           THEN /\ gw' = [called EXCEPT !.idx = @ + 1]
                /\ pc' = "create"
           ELSE /\ gw' = [called EXCEPT !.ret =
                            GatewayReturn("RuntimeError",
                                          _format_openai_error_message(raw, gw.model))]
                /\ pc' = "gateway"
    /\ UNCHANGED gatewayFrame

-----------------------------------------------------------------------------
(* agent.py: _emit_event *)

Callbacks == {"none", "callable"}

\* whether on_event was called and whether an exception left _emit_event;
\* fails: the callback raises an Exception on this event
Emitted(called, raised) == [called |-> called, raised |-> raised]

\* _emit_event calling on_event outside any try block
_emit_event_Unguarded(cb, fails) == Emitted(cb # "none", cb # "none" /\ fails)

_emit_event(cb, fails) == Emitted(cb # "none", FALSE)

\* where run_agent is when it emits events after the goal check
EmittingPcs == {"start", "intent", "loop", "tools", "decide"}

\* an exception leaves _emit_event and so run_agent: after start() and before
\* the try block (lines 450-453) the child stays; inside the try block the
\* finally clause closes the client
EventEscapes(launch, death) ==
    /\ entry = "run_agent" /\ pc \in EmittingPcs
    /\ IF pc = "start"
       THEN LET st == MCPClient_start(proc, launch)
            IN  /\ proc' = st.proc
                /\ spawned' = spawned + st.spawn
                /\ exit' = IF st.raised THEN "start_failed" ELSE "on_event"
       ELSE /\ proc' = MCPClient_close(proc, death).proc
            /\ exit' = "on_event"
            /\ UNCHANGED spawned
    /\ outcome' = "raised"
    /\ pc' = "done"
    /\ UNCHANGED << inputVars, loopVars, result, wire, replies, store, callerVars >>

-----------------------------------------------------------------------------
(* The specification *)

Blank ==
    /\ step = 0
    /\ messages = <<>>
    /\ pending = <<>>
    /\ vs = GoalValidationState(FALSE, FALSE)
    /\ last_tool_result = NoneText
    /\ exit = "running"
    /\ result = NoneText
    /\ outcome = "running"
    /\ gatewayCalls = 0
    /\ nextCallId = 1
    /\ callLog = <<>>
    /\ proc = "none"
    /\ wire = <<>>
    /\ replies = <<>>
    /\ spawned = 0
    /\ lastResp = NoResp
    /\ lastCall = NoCall
    /\ nreq = 0
    /\ observed = <<>>
    /\ verdict = NoVerdict
    /\ rt = NoRoute
    /\ gw = NoGateway

\* run_agent is called with a goal and a step limit
Init ==
    /\ entry = "run_agent"
    /\ pc = "enter"
    /\ goal \in Goals
    /\ max_steps \in 0..MaxSteps
    /\ store \in InitialStores
    /\ store0 = store
    /\ on_event = "none"
    /\ Blank

\* a ValidationState has just been created for some pair of intents
ValidatorInit ==
    /\ entry = "validator"
    /\ pc = "fold"
    /\ goal = Goal("", TRUE, FALSE, FALSE)
    /\ max_steps = 0
    /\ store \in InitialStores
    /\ store0 = store
    /\ step = 0
    /\ messages = <<>>
    /\ pending = <<>>
    /\ vs \in { GoalValidationState(a, d) : a, d \in BOOLEAN }
    /\ last_tool_result = NoneText
    /\ exit = "running"
    /\ result = NoneText
    /\ outcome = "running"
    /\ gatewayCalls = 0
    /\ nextCallId = 1
    /\ callLog = <<>>
    /\ proc = "none"
    /\ wire = <<>>
    /\ replies = <<>>
    /\ spawned = 0
    /\ lastResp = NoResp
    /\ lastCall = NoCall
    /\ nreq = 0
    /\ observed = <<>>
    /\ verdict = NoVerdict
    /\ rt = NoRoute
    /\ gw = NoGateway
    /\ on_event = "none"

\* a router function is called with a goal, a model callback and max_attempts
RouterInit ==
    /\ entry = "router"
    /\ pc = "route"
    /\ goal \in RouterGoals
    /\ max_steps = 0
    /\ store = <<>>
    /\ store0 = store
    /\ step = 0
    /\ messages = <<>>
    /\ pending = <<>>
    /\ vs = GoalValidationState(FALSE, FALSE)
    /\ last_tool_result = NoneText
    /\ exit = "running"
    /\ result = NoneText
    /\ outcome = "running"
    /\ gatewayCalls = 0
    /\ nextCallId = 1
    /\ callLog = <<>>
    /\ proc = "none"
    /\ wire = <<>>
    /\ replies = <<>>
    /\ spawned = 0
    /\ lastResp = NoResp
    /\ lastCall = NoCall
    /\ nreq = 0
    /\ observed = <<>>
    /\ verdict = NoVerdict
    /\ rt \in { Route(fn, goal.blank, n, 0, "", <<>>, <<>>, NoReturn, FALSE) :
                    fn \in {"skills", "intent"}, n \in (-1)..MaxAttempts }
    /\ gw = NoGateway
    /\ on_event = "none"

\* a direct caller holds a fresh MCPClient
CallerInit ==
    /\ entry = "mcp_client"
    /\ pc = "caller"
    /\ goal = Goal("", TRUE, FALSE, FALSE)
    /\ max_steps = 0
    /\ store \in InitialStores
    /\ store0 = store
    /\ on_event = "none"
    /\ Blank

Next ==
    \/ \E skills \in {"read", "unreadable"} : Enter(skills)
    \/ \E launch \in Launches : StartClient(launch)
    \/ \E routed_ok, model_add, model_delete \in BOOLEAN :
            DetectIntents(routed_ok, model_add, model_delete)
    \/ \E death \in Deaths : GatewayFail(death)
    \/ \E text \in AssistantTexts : ModelReply(text, <<>>)
    \/ \E calls \in ToolCallLists : ModelReply(EmptyText, calls)
    \/ \E fate \in Fates : ExecToolCall(fate)
    \/ Reject
    \/ \E death \in Deaths : Answer(death)
    \/ \E death \in Deaths : StepCap(death)
    \/ ChildExit

\* the server process reads its stdin, whatever wrote it
ServerInit ==
    /\ entry = "mcp_server"
    /\ pc = "serve"
    /\ goal = Goal("", TRUE, FALSE, FALSE)
    /\ max_steps = 0
    /\ store \in ServerStores
    /\ store0 = store
    /\ on_event = "none"
    /\ Blank

\* the wrapper is called for some model
GatewayInit ==
    /\ entry = "gateway"
    /\ pc = "gateway"
    /\ goal = Goal("", TRUE, FALSE, FALSE)
    /\ max_steps = 0
    /\ store = <<>>
    /\ store0 = store
    /\ on_event = "none"
    /\ step = 0
    /\ messages = <<>>
    /\ pending = <<>>
    /\ vs = GoalValidationState(FALSE, FALSE)
    /\ last_tool_result = NoneText
    /\ exit = "running"
    /\ result = NoneText
    /\ outcome = "running"
    /\ gatewayCalls = 0
    /\ nextCallId = 1
    /\ callLog = <<>>
    /\ proc = "none"
    /\ wire = <<>>
    /\ replies = <<>>
    /\ spawned = 0
    /\ lastResp = NoResp
    /\ lastCall = NoCall
    /\ nreq = 0
    /\ observed = <<>>
    /\ verdict = NoVerdict
    /\ rt = NoRoute
    /\ gw \in { Gateway(m, 0, 0, <<>>, GatewayReturn("none", NoGatewayError)) : m \in Models }

\* run_agent is called with or without an on_event callback
ObservedInit ==
    /\ entry = "run_agent"
    /\ pc = "enter"
    /\ goal \in Goals
    /\ max_steps \in 0..MaxObservedSteps
    /\ store \in InitialStores
    /\ store0 = store
    /\ on_event \in Callbacks
    /\ Blank

CallerNext ==
    \/ \E launch \in Launches : CallerStart(launch)
    \/ \E r \in CallerRequests, fate \in Fates : CallerRequest(r.tool, r.arguments, fate)
    \/ \E death \in Deaths : CallerClose(death)
    \/ ChildExit

ServerNext ==
    \/ \E line \in ServerLines : ServeLine(line)
    \/ ServerEOF

GatewayNext ==
    \/ GatewayBegin
    \/ \E raw \in EndpointOutcomes : GatewayCreate(raw)

\* a step of run_agent with its events: every step emits at least one, and
\* the callback, when there is one, may raise on any of them
ObservedNext ==
    \E fails \in BOOLEAN :
        IF _emit_event(on_event, fails).raised
        THEN \E launch \in Launches, death \in Deaths : EventEscapes(launch, death)
        ELSE Next

\* the validator fed with the results of every tool, rejected listings included
ListingNext ==
    \/ \E r \in ListingRequests : Len(observed) < MaxListed /\ Observe(r.tool, r.arguments)
    \/ Validate

ValidatorNext ==
    \/ \E r \in FoldRequests : Observe(r.tool, r.arguments)
    \/ Validate

RouterNext ==
    \/ RouteEnter
    \/ \E out \in SkillOutputs \cup IntentOutputs : RouteAttempt(out)
    \/ RouteExhausted
    \/ RouteSkillNames
    \/ IntentRouted

\* the server loop over the lines of its stdin
ServerSpec == ServerInit /\ [][ServerNext]_vars

\* both ends of the pipe: the server loop, and an MCPClient with its child
WireSpec == (ServerInit \/ CallerInit) /\ [][ServerNext \/ CallerNext]_vars

\* the validator state over tool results of every kind
ListingSpec == ValidatorInit /\ [][ListingNext]_vars

\* calls of the gateway wrapper
GatewaySpec == GatewayInit /\ [][GatewayNext]_vars

\* a run of run_agent with an observer
ObservedSpec == ObservedInit /\ [][ObservedNext]_vars

\* a run of run_agent
Spec == Init /\ [][Next]_vars

\* one invocation of a router function
RouterSpec == RouterInit /\ [][RouterNext]_vars

\* the validator fed with served tool results
ValidatorSpec == ValidatorInit /\ [][ValidatorNext]_vars

\* a direct caller of MCPClient
CallerSpec == CallerInit /\ [][CallerNext]_vars

\* either program
SystemSpec ==
    ((Init /\ max_steps <= MaxSystemSteps) \/ CallerInit) /\ [][Next \/ CallerNext]_vars

-----------------------------------------------------------------------------
(* Properties *)

\* the longest tool-call list of one assistant message
MostCalls == CHOOSE n \in {Len(c) : c \in ToolCallLists} :
                \A c \in ToolCallLists : Len(c) <= n

\* a measure of the work a run still has before it: every step of run_agent
\* and every exit of the child lowers it
Rank ==
    (CASE pc = "enter" -> 7 [] pc = "start" -> 5 [] pc = "intent" -> 3
       [] pc = "done" -> 0 [] OTHER -> 1)
    + (IF pc = "done" \/ max_steps < step THEN 0
       ELSE (max_steps - step) * (MostCalls + 2))
    + Len(pending)
    + (IF pc = "decide" THEN 1 ELSE 0)
    + (IF proc \in {"running", "closing"} THEN 1 ELSE 0)

StepLimitText(n) == Txt("Stopped after reaching max_steps={n}.", n, "", <<>>)

\* C1: run_agent makes at most max_steps gateway calls; when step max_steps
\* ends without a return the only thing the loop does is stop with the text
\* 'Stopped after reaching max_steps=<max_steps>.'; and every run terminates:
\* a run that has not ended can always take a step, and every step lowers
\* Rank, a natural number.
C1_StepBound ==
    /\ [](/\ gatewayCalls <= max_steps
          /\ gatewayCalls = step
          /\ Rank >= 0
          /\ (exit = "max_steps" =>
                 /\ pc = "done" /\ step = max_steps
                 /\ result = StepLimitText(max_steps))
          /\ (pc # "done" => ENABLED Next))
    /\ [][ /\ Rank' < Rank
           /\ (pc = "loop" /\ step >= max_steps /\ pc' # pc =>
                 exit' = "max_steps" /\ result' = StepLimitText(max_steps)) ]_vars

C1_Witness ==
    /\ exit = "max_steps" /\ outcome = "returned"
    /\ max_steps = MaxSteps /\ gatewayCalls = MaxSteps
    /\ result = StepLimitText(MaxSteps)

\* C2: when run_agent returns the assistant's text as the final answer, the
\* text is non-empty, it is the text of the last assistant message, that
\* message has no tool calls, and _validate_goal_completion holds on the
\* validation state.
C2_FinalAnswerValidated ==
    exit = "final_answer" =>
        /\ _validate_goal_completion(vs).ok
        /\ ~IsBlank(result)
        /\ messages[Len(messages)].role = "assistant"
        /\ messages[Len(messages)].tool_calls = <<>>
        /\ result = messages[Len(messages)].content

C2_Witness ==
    /\ exit = "final_answer" /\ outcome = "returned"
    /\ result = Lit("Done.")
    /\ _validate_goal_completion(vs).ok

\* a logged tool call the claims are about: a tool name, a raw argument
\* payload that is the JSON text of an object, a child that runs throughout
WellFormedCall(c) ==
    /\ c.name # ""
    /\ c.arguments.py = "str" /\ c.arguments.s = "json-object"
    /\ c.live /\ c.after

\* C3: for every tool call of an assistant message with a non-empty tool name
\* and a JSON-object argument payload, run_agent sends exactly one request
\* line {tool, arguments} carrying the parsed object to the Tool Executor,
\* and the Tool Executor answers it with exactly one response line.
C3_EveryToolCallSentOnce ==
    \A i \in 1..Len(callLog) :
        WellFormedCall(callLog[i]) =>
            /\ callLog[i].sent = << Line("object", PyStr(callLog[i].name),
                                          PyDict(callLog[i].arguments.d)) >>
            /\ Len(callLog[i].answered) = 1

\* the tool names an assistant message asks for
CallNames(m) == [k \in 1..Len(m.tool_calls) |-> m.tool_calls[k].name]

\* the Conversation of Scenario A, with its third step decided: add_task,
\* then list_tasks, then a text-only reply
ScenarioA ==
    /\ vs.wants_add /\ ~vs.wants_delete
    /\ store0 = <<>>
    /\ Len(messages) >= 7
    /\ (Len(messages) = 7 => pc = "done")
    /\ messages[3].role = "assistant" /\ CallNames(messages[3]) = << "add_task" >>
    /\ messages[3].tool_calls[1].arguments = PyJsonObject(ArgText("Buy milk"))
    /\ messages[5].role = "assistant" /\ CallNames(messages[5]) = << "list_tasks" >>
    /\ messages[7].role = "assistant" /\ messages[7].tool_calls = <<>>
    /\ ~IsBlank(messages[7].content)
    /\ \A i \in 1..2 : callLog[i].live /\ callLog[i].after

\* C4: in Scenario A the add result is 'Added task #1: Buy milk', the list
\* result shows one entry, the validator passes, and run_agent stops in the
\* third step returning the assistant's text.
C4_ScenarioA ==
    ScenarioA =>
        /\ messages[4].content = Txt("Added task #{n}: {s}", 1, "Buy milk", <<>>)
        /\ TaskLineMatches(messages[6].content) = 1
        /\ _validate_goal_completion(vs).ok
        /\ Len(messages) = 7
        /\ exit = "final_answer"
        /\ result = messages[7].content

\* the goal of Scenario B has been recognised as delete-only and the store
\* never held a task with id 7
ScenarioB ==
    /\ pc \notin {"enter", "start", "intent"}
    /\ ~vs.wants_add /\ vs.wants_delete
    /\ \A i \in 1..Len(store0) : store0[i].id # 7

\* C5: in Scenario B every delete_task(7) tool result is 'Task #7 not
\* found.', delete_success_count stays 0, every text-only reply is answered
\* by a corrective system message, and the run can only end with the
\* step-limit message (or a gateway failure).
C5_ScenarioB ==
    ScenarioB =>
        /\ \A i \in 1..Len(callLog) :
               ( /\ WellFormedCall(callLog[i])
                 /\ callLog[i].name = "delete_task"
                 /\ callLog[i].arguments.d = ArgId(7) ) =>
                   ToolResultText(callLog[i].resp) = Txt("Task #{n} not found.", 7, "", <<>>)
        /\ vs.delete_success_count = 0
        /\ \A i \in 3..Len(messages) :
               ( /\ messages[i].role = "assistant" /\ messages[i].tool_calls = <<>>
                 /\ (i = Len(messages) => pc # "decide") ) =>
                   /\ i < Len(messages)
                   /\ messages[i + 1].role = "system"
        /\ exit \in {"running", "max_steps", "openai_request"}

\* the direct caller's last call was a request with a valid tool and
\* arguments, made on a child that had exited after start()
RequestAfterExit(c) ==
    /\ c.op = "request" /\ c.proc = "exited"
    /\ c.tool.py = "str" /\ c.tool.s # ""
    /\ c.arguments.py \in {"dict", "None"}

NotRunningText == Lit("Server is not running. Call start() first.")
DisconnectedText == Lit("Server disconnected: {detail}")

\* Scenario C as first stated: after the child has exited, the next request
\* with a valid tool and arguments returns {status: error, error: 'Server
\* disconnected: ...'}, and that is the text of run_agent's tool message.
C6_ScenarioC_Disconnected ==
    /\ (entry = "mcp_client" /\ RequestAfterExit(lastCall)) =>
            lastResp = ErrResp(DisconnectedText)
    /\ \A i \in 1..Len(callLog) :
            (~callLog[i].live /\ callLog[i].name # ""
                /\ callLog[i].arguments.s = "json-object") =>
                    ToolResultText(callLog[i].resp) = DisconnectedText

\* C6: when the child has exited after start(), the next MCPClient.request
\* with a valid tool and arguments returns {status: error, error: 'Server is
\* not running. Call start() first.'} without writing anything; 'Server
\* disconnected: ...' is returned only for a child that exits during the
\* request; run_agent appends the error text of the response it gets as an
\* ordinary tool message for the call and continues the step.
C6_ChildExitIsToolError ==
    [][ /\ ( /\ entry = "mcp_client" /\ nreq' # nreq
             /\ proc = "exited" /\ RequestAfterExit(lastCall') ) =>
                /\ lastResp' = ErrResp(NotRunningText)
                /\ UNCHANGED << proc, wire, replies, store >>
        /\ ( /\ entry = "mcp_client" /\ nreq' # nreq
             /\ lastCall'.op = "request"
             /\ lastResp'.error = DisconnectedText ) =>
                /\ proc = "running" /\ proc' = "exited"
                /\ Len(wire') = Len(wire) + 1
                /\ replies' = replies
        /\ ( /\ entry = "run_agent" /\ pc = "tools"
             /\ proc = "exited" /\ messages' # messages ) =>
                LET call == Head(pending)
                    resp == callLog'[Len(callLog')].resp
                IN  /\ Len(callLog') = Len(callLog) + 1
                    /\ resp.status = "error"
                    /\ messages' = Append(messages, ToolMsg(call.id, call.name, resp.error))
                    /\ pending' = Tail(pending)
                    /\ pc' \in {"tools", "loop"}
                    /\ UNCHANGED << step, gatewayCalls, exit, result, outcome >>
      ]_vars

C6_Witness ==
    /\ entry = "mcp_client" /\ spawned = 1
    /\ RequestAfterExit(lastCall)
    /\ lastCall.arguments.py = "dict"
    /\ lastResp = ErrResp(NotRunningText)
    /\ proc = "exited"

\* a corrective system message has been appended in this run
Rejected == \E i \in 3..Len(messages) : messages[i].role = "system"

\* the exits of a step without tool calls that the validator let through
AcceptedExits == {"final_answer", "empty_response_with_tool_fallback", "empty_response"}

\* C7: in a step without tool calls where _validate_goal_completion is
\* false, run_agent appends exactly one system message (the corrective
\* guidance) and goes on to the next step without ending the run; after a
\* rejection the run ends only by an answer the validator accepts, a gateway
\* failure or the step cap.
C7_RejectionContinues ==
    /\ [](Rejected =>
            \/ exit \in {"running", "openai_request", "max_steps"}
            \/ exit \in AcceptedExits /\ _validate_goal_completion(vs).ok)
    /\ [][ ( /\ pc = "decide" /\ pc' # pc
             /\ ~_validate_goal_completion(vs).ok ) =>
                /\ messages' = Append(messages,
                        SystemMsg(_build_validation_feedback(vs,
                                      _validate_goal_completion(vs).reason)))
                /\ pc' = "loop"
                /\ UNCHANGED << step, gatewayCalls, vs, exit, result, outcome >>
      ]_vars

C7_Witness ==
    /\ Rejected
    /\ exit = "max_steps"
    /\ \E i \in 3..Len(messages) :
          /\ messages[i].role = "assistant" /\ messages[i].tool_calls = <<>>
          /\ IsBlank(messages[i].content)
          /\ i < Len(messages)
          /\ messages[i + 1].role = "system"

\* number of assistant messages in the Conversation: the gateway calls that
\* answered
Answered == Cardinality({i \in 1..Len(messages) : messages[i].role = "assistant"})

\* the ways run_agent ends before its step loop is entered
PreLoopExits == {"blank_goal", "skill_routing", "start_failed"}

\* the claim of C8 as first stated: a failed gateway call ends the run with
\* the error text, and a run ends only by an accepted answer, a gateway
\* failure or the step cap.
C8_OnlyGatewayOrStepCap ==
    /\ gatewayCalls > Answered => exit = "openai_request" /\ result = GatewayErrorText
    /\ pc = "done" =>
            \/ exit \in {"openai_request", "max_steps"}
            \/ exit \in AcceptedExits /\ _validate_goal_completion(vs).ok

\* C8: a failed gateway call ends the run in that step: the error text is
\* the value returned, no tool call is pending and nothing runs afterwards;
\* once the step loop is entered a run ends only by a gateway failure, the
\* step cap or a reply the validator accepts; before the loop it can end by
\* the blank-goal ValueError, the skill-loading error text or the failure of
\* MCPClient.start.
C8_GatewayFailureStops ==
    /\ gatewayCalls > Answered =>
            /\ exit = "openai_request" /\ pc = "done"
            /\ result = GatewayErrorText
            /\ gatewayCalls = Answered + 1
            /\ pending = <<>>
    /\ exit = "openai_request" => gatewayCalls > Answered
    /\ pc = "done" =>
            /\ ~ENABLED Next
            /\ \/ exit \in {"openai_request", "max_steps"}
               \/ exit \in AcceptedExits /\ _validate_goal_completion(vs).ok
               \/ exit \in PreLoopExits /\ step = 0 /\ gatewayCalls = 0 /\ callLog = <<>>

C8_Witness ==
    /\ exit = "openai_request" /\ outcome = "returned"
    /\ result = GatewayErrorText
    /\ step = 2 /\ gatewayCalls = 2 /\ Answered = 1
    /\ Len(callLog) = 2

C10_ToolMessagePerCallId ==
    pc = "loop" =>
        \A i \in 1..Len(messages) :
            messages[i].role = "assistant" =>
                \A k \in 1..Len(messages[i].tool_calls) :
                    LET id == messages[i].tool_calls[k].id
                        hits == {j \in 1..Len(messages) :
                                    /\ messages[j].role = "tool"
                                    /\ messages[j].tool_call_id = id}
                    IN  /\ Cardinality(hits) = 1
                        /\ \A j \in hits : j > i

C10_Witness ==
    /\ pc = "loop" /\ LoopHasNext(step, max_steps)
    /\ Len(callLog) >= 3
    /\ \E i \in 1..Len(messages) : Len(messages[i].tool_calls) = 2

RECURSIVE AskedIds(_)
\* the ids of the tool calls the assistant messages ask for, in the order of
\* the Conversation and, within a message, of its tool_calls list
AskedIds(msgs) ==
    IF msgs = <<>> THEN <<>>
    ELSE LET m == msgs[Len(msgs)]
             front == AskedIds(SubSeq(msgs, 1, Len(msgs) - 1))
         IN  IF m.role = "assistant"
             THEN front \o [k \in 1..Len(m.tool_calls) |-> m.tool_calls[k].id]
             ELSE front

RECURSIVE AnsweredIds(_)
\* the tool_call_ids of the tool messages, in the order of the Conversation
AnsweredIds(msgs) ==
    IF msgs = <<>> THEN <<>>
    ELSE LET m == msgs[Len(msgs)]
             front == AnsweredIds(SubSeq(msgs, 1, Len(msgs) - 1))
         IN  IF m.role = "tool" THEN Append(front, m.tool_call_id) ELSE front

\* C11: the tool calls are executed one at a time in the order the model
\* listed them: the calls executed so far, followed by the calls still
\* pending, are the calls asked for, in order; the tool messages are in that
\* same order; each executed call wrote at most one request line and its
\* reply was read before the call ended; each execution takes the first
\* pending call, folds its result into the validator and appends its tool
\* message in the same step, and no gateway call happens while calls are
\* pending.
C11_ToolCallsInOrder ==
    /\ [](LET executed == [i \in 1..Len(callLog) |-> callLog[i].id]
              waiting  == [i \in 1..Len(pending) |-> pending[i].id]
          IN  /\ executed \o waiting = AskedIds(messages)
              /\ AnsweredIds(messages) = executed
              /\ (pending # <<>> => pc = "tools")
              /\ \A i \in 1..Len(callLog) :
                    /\ Len(callLog[i].sent) <= 1
                    /\ Len(callLog[i].answered) <= Len(callLog[i].sent))
    /\ [][ /\ callLog' # callLog =>
                /\ pending # <<>>
                /\ pending' = Tail(pending)
                /\ Len(callLog') = Len(callLog) + 1
                /\ LET c == callLog'[Len(callLog')]
                   IN  /\ c.id = Head(pending).id
                       /\ vs' = _update_validation_state(vs, c.name, ToolResultText(c.resp))
                       /\ messages' = Append(messages,
                                         ToolMsg(c.id, c.name, ToolResultText(c.resp)))
           /\ gatewayCalls' # gatewayCalls => pending = <<>>
      ]_vars

C11_Witness ==
    /\ pc = "loop" /\ pending = <<>>
    /\ Len(callLog) = 2
    /\ callLog[1].name = "add_task" /\ callLog[2].name = "list_tasks"
    /\ callLog[1].id + 1 = callLog[2].id
    /\ Len(messages[3].tool_calls) = 2
    /\ AnsweredIds(messages) = << callLog[1].id, callLog[2].id >>

\* what the result texts of the Tool Executor say
SaysAdded(t) == t.k = "Added task #{n}: {s}"
SaysDeletedOne(t) == t.k = "Deleted task #{n}: {s}"
SaysDeletedMany(t) == t.k = "Deleted {n} task(s): {ids}"
SaysListing(t) == t.k = "No tasks yet." \/ (t.k = "{id}. {[x]|[ ]} {title}" /\ Len(t.l) > 0)

\* C12: for an add-only goal the validator answers ok only when a
\* successful add was counted, both counts are known and latest_count >
\* initial_count; in every other state it answers not ok.
C12_AddOnlyNeedsGrowth ==
    (verdict.checked /\ vs.wants_add /\ ~vs.wants_delete /\ verdict.ok) =>
        /\ vs.add_success_count >= 1
        /\ vs.initial_count # NoCount /\ vs.latest_count # NoCount
        /\ vs.latest_count > vs.initial_count

C12_Witness ==
    /\ verdict.checked /\ verdict.ok
    /\ vs.wants_add /\ ~vs.wants_delete
    /\ vs.initial_count = 0 /\ vs.latest_count = 1
    /\ vs.add_success_count = 1

\* C13: for a delete-only goal the validator answers ok only when
\* delete_success_count >= 1 and latest_count < initial_count; and
\* delete_success_count changes only when a delete_task result says
\* 'Deleted task #..' (by 1) or a delete_tasks result says 'Deleted <n>
\* task(s)' with n > 0 (by n), so never on 'not found' or 'No tasks deleted.'.
C13_DeleteOnlyNeedsShrink ==
    /\ []((verdict.checked /\ vs.wants_delete /\ ~vs.wants_add /\ verdict.ok) =>
            /\ vs.delete_success_count >= 1
            /\ vs.initial_count # NoCount /\ vs.latest_count # NoCount
            /\ vs.latest_count < vs.initial_count)
    /\ [][ vs'.delete_success_count # vs.delete_success_count =>
             /\ Len(observed') = Len(observed) + 1
             /\ LET o == observed'[Len(observed')]
                IN  \/ /\ o.name = "delete_task" /\ SaysDeletedOne(o.result)
                       /\ vs'.delete_success_count = vs.delete_success_count + 1
                    \/ /\ o.name = "delete_tasks" /\ SaysDeletedMany(o.result)
                       /\ o.result.n > 0
                       /\ vs'.delete_success_count = vs.delete_success_count + o.result.n
      ]_vars

C13_Witness ==
    /\ verdict.checked /\ verdict.ok
    /\ vs.wants_delete /\ ~vs.wants_add
    /\ vs.delete_success_count = 1
    /\ vs.latest_count < vs.initial_count
    /\ \E i \in 1..Len(observed) :
          observed[i].name = "delete_task" /\ observed[i].result.k = "Task #{n} not found."

RECURSIVE AddsObserved(_)
\* the successful adds among the results folded in
AddsObserved(obs) ==
    IF obs = <<>> THEN 0
    ELSE AddsObserved(Tail(obs))
         + (IF Head(obs).name = "add_task" /\ SaysAdded(Head(obs).result) THEN 1 ELSE 0)

RECURSIVE DeletesObserved(_)
\* the tasks reported deleted by the results folded in
DeletesObserved(obs) ==
    IF obs = <<>> THEN 0
    ELSE DeletesObserved(Tail(obs))
         + (IF Head(obs).name = "delete_task" /\ SaysDeletedOne(Head(obs).result) THEN 1
            ELSE IF Head(obs).name = "delete_tasks" /\ SaysDeletedMany(Head(obs).result)
            THEN Head(obs).result.n
            ELSE 0)

\* C14: the counters are the totals of the successful adds and deletes
\* observed, and for a goal that wants both the validator answers ok only
\* when both are at least 1 and latest_count = initial_count +
\* add_success_count - delete_success_count.
C14_MixedExactArithmetic ==
    /\ vs.add_success_count = AddsObserved(observed)
    /\ vs.delete_success_count = DeletesObserved(observed)
    /\ (verdict.checked /\ vs.wants_add /\ vs.wants_delete /\ verdict.ok) =>
            /\ vs.add_success_count >= 1 /\ vs.delete_success_count >= 1
            /\ vs.initial_count # NoCount /\ vs.latest_count # NoCount
            /\ vs.latest_count =
                 vs.initial_count + vs.add_success_count - vs.delete_success_count

C14_Witness ==
    /\ verdict.checked /\ verdict.ok
    /\ vs.wants_add /\ vs.wants_delete
    /\ vs.add_success_count = 1 /\ vs.delete_success_count = 1
    /\ vs.initial_count = 1 /\ vs.latest_count = 1

\* C15: whenever the validator answers ok for a goal that wants add or
\* delete, a parsable list_tasks result was folded in after the most recent
\* successful add or delete.
C15_ListAfterLastMutation ==
    (verdict.checked /\ verdict.ok /\ (vs.wants_add \/ vs.wants_delete)) =>
        LET mutations == {i \in 1..Len(observed) :
                            \/ observed[i].name = "add_task" /\ SaysAdded(observed[i].result)
                            \/ observed[i].name = "delete_task"
                                  /\ SaysDeletedOne(observed[i].result)
                            \/ observed[i].name = "delete_tasks"
                                  /\ SaysDeletedMany(observed[i].result)}
            listings  == {i \in 1..Len(observed) :
                            observed[i].name = "list_tasks" /\ SaysListing(observed[i].result)}
        IN  \A m \in mutations : \E l \in listings : l > m

AddGuidance ==
    "Validation gate not satisfied. {s} Required next action: call add_task for the requested items, then call list_tasks to verify."
DeleteGuidance ==
    "Validation gate not satisfied. {s} Required next action: use the latest task list and delete matched ids (prefer delete_tasks for multiple ids), then call list_tasks to verify."

\* C16: when add is wanted and no successful add was counted, the validator
\* answers not ok and the corrective text tells to add and then list; when
\* delete is wanted and no successful delete was counted, it answers not ok
\* and the corrective text tells to delete and then list.
C16_GuidanceNamesMissingOperation ==
    verdict.checked =>
        /\ (vs.wants_add /\ vs.add_success_count = 0) =>
                ~verdict.ok /\ verdict.feedback.k = AddGuidance
        /\ (vs.wants_delete /\ vs.delete_success_count = 0) =>
                ~verdict.ok /\ verdict.feedback.k = DeleteGuidance

\* C17: no step lowers add_success_count or delete_success_count.
C17_CountersNeverDecrease ==
    [][ /\ vs'.add_success_count >= vs.add_success_count
        /\ vs'.delete_success_count >= vs.delete_success_count ]_vars

C17_Witness ==
    /\ vs.add_success_count = 2 /\ vs.delete_success_count = 1
    /\ Len(observed) = MaxObserved
    /\ observed[MaxObserved].name = "list_tasks"
    /\ verdict.checked

\* the router function has returned (its caller may have gone on since)
RouterReturned == entry = "router" /\ pc \in {"routed", "selected", "loop"}

\* the attempts of the invocation that failed: the model call raised, or its
\* output did not pass validation
FailedAttempt(out) == out.raises \/ ~ValidateOutput(rt.fn, out).ok
FailedValidations ==
    Cardinality({i \in 1..Len(rt.outs) :
                    ~rt.outs[i].raises /\ ~ValidateOutput(rt.fn, rt.outs[i]).ok})
AllowedSkillNames == {ALLOWED_SKILLS[i] : i \in 1..Len(ALLOWED_SKILLS)}
\* the value returned with ok=true is the validated content of the last output:
\* skills of the enumeration, or two JSON booleans
DrawnFromAllowed ==
    LET last == rt.outs[Len(rt.outs)]
    IN  /\ Len(rt.outs) >= 1 /\ ~last.raises
        /\ IF rt.fn = "skills"
           THEN /\ rt.ret.skills = last.skills.items
                /\ last.skills.type = "list" /\ last.skills.all_str
                /\ \A i \in 1..Len(rt.ret.skills) : rt.ret.skills[i] \in AllowedSkillNames
                /\ ~rt.ret.intent.has
           ELSE /\ rt.ret.intent.has
                /\ last.wants_add.type = "bool" /\ last.wants_delete.type = "bool"
                /\ rt.ret.intent.wants_add = last.wants_add.b
                /\ rt.ret.intent.wants_delete = last.wants_delete.b
                /\ rt.ret.skills = <<>>
NoValueReturned == rt.ret.skills = <<>> /\ ~rt.ret.intent.has

\* C18 as stated: a router call returns ok=true with a value drawn from the
\* allowed enumeration, or ok=false after exactly max_attempts failed
\* validations, whatever the goal and the model do.
C18_FalseOnlyAfterMaxValidations ==
    RouterReturned =>
        \/ rt.ret.ok /\ DrawnFromAllowed
        \/ ~rt.ret.ok /\ FailedValidations = rt.max_attempts

\* C18: for a non-blank goal and max_attempts >= 1 a router call returns
\* ok=true with a value drawn from the allowed enumeration, or ok=false after
\* exactly max_attempts failed attempts (an output that fails validation, or
\* a model call that raises); for a blank goal or max_attempts < 1 it returns
\* ok=false without calling the model.
C18_TrueAllowedOrFalseAfterAllAttempts ==
    RouterReturned =>
        IF rt.blank \/ rt.max_attempts < 1
        THEN ~rt.ret.ok /\ rt.outs = <<>> /\ NoValueReturned
        ELSE \/ rt.ret.ok /\ DrawnFromAllowed
             \/ /\ ~rt.ret.ok /\ NoValueReturned
                /\ Len(rt.outs) = rt.max_attempts
                /\ \A i \in 1..Len(rt.outs) : FailedAttempt(rt.outs[i])

C18_Witness ==
    /\ RouterReturned /\ ~rt.ret.ok /\ ~rt.blank
    /\ rt.max_attempts = 3 /\ Len(rt.outs) = 3
    /\ FailedValidations = 2
    /\ rt.outs[2].raises

C20_FirstValidOutputReturned ==
    /\ \A i \in 1..Len(rt.outs) :
            ~FailedAttempt(rt.outs[i]) =>
                /\ i = Len(rt.outs)
                /\ RouterReturned /\ rt.ret.ok
                /\ rt.ret = ValidateOutput(rt.fn, rt.outs[i])
    /\ (RouterReturned /\ rt.ret.ok) =>
            /\ Len(rt.outs) >= 1
            /\ ~FailedAttempt(rt.outs[Len(rt.outs)])

C20_Witness ==
    /\ RouterReturned /\ rt.fn = "skills" /\ rt.max_attempts = 3
    /\ Len(rt.outs) = 2
    /\ rt.outs[1] = NotJson
    /\ rt.outs[2] = SkillsOut({"skills", "reason"}, JsonList(TRUE, <<"task_deletion">>),
                              JsonText("str", "delete goal"))
    /\ rt.ret = Routed(TRUE, <<"task_deletion">>, NoIntent, Lit("delete goal"))

\* the error an attempt leaves in last_error
AttemptError(out) ==
    IF out.raises THEN "Model call failed: {exc}" ELSE ValidateOutput(rt.fn, out).reason.k

\* C21: the prompt of attempt k+1 carries the error of attempt k; one router
\* invocation makes at most max_attempts model calls; on exhaustion the
\* returned reason contains the error of the last attempt.
C21_RetryCarriesLastError ==
    /\ Len(rt.prompts) = Len(rt.outs)
    /\ \A k \in 1..(Len(rt.outs) - 1) :
            /\ FailedAttempt(rt.outs[k])
            /\ rt.prompts[k + 1] = BuildPrompt(AttemptError(rt.outs[k]))
            /\ rt.prompts[k + 1].retry_block
    /\ (rt.outs = <<>> \/ Len(rt.outs) <= rt.max_attempts)
    /\ (RouterReturned /\ ~rt.ret.ok /\ rt.outs # <<>>) =>
            rt.ret.reason = ExhaustedText(rt.fn, rt.max_attempts,
                                          AttemptError(rt.outs[Len(rt.outs)]))

C21_Witness ==
    /\ RouterReturned /\ ~rt.ret.ok /\ rt.max_attempts = 3 /\ Len(rt.outs) = 3
    /\ ~rt.outs[1].raises /\ ~rt.outs[2].raises /\ ~rt.outs[3].raises
    /\ AttemptError(rt.outs[1]) # AttemptError(rt.outs[2])
    /\ AttemptError(rt.outs[2]) # AttemptError(rt.outs[3])
    /\ AttemptError(rt.outs[1]) # AttemptError(rt.outs[3])
    /\ rt.prompts[3].validation_error = AttemptError(rt.outs[2])
    /\ rt.ret.reason.s = AttemptError(rt.outs[3])

\* the conditions on a returned output that the validation is said to test
ExpectedKeys == IF rt.fn = "skills" THEN {"skills", "reason"}
                ELSE {"wants_add", "wants_delete", "reason"}
WellShaped(out) ==
    /\ out.json = "object"
    /\ out.keys = ExpectedKeys
    /\ IF rt.fn = "skills"
       THEN /\ out.skills.type = "list" /\ out.skills.all_str
            /\ \A i \in 1..Len(out.skills.items) : out.skills.items[i] \in AllowedSkillNames
            /\ \A i, j \in 1..Len(out.skills.items) :
                    out.skills.items[i] = out.skills.items[j] => i = j
       ELSE out.wants_add.type = "bool" /\ out.wants_delete.type = "bool"
\* the i-th output of the invocation was accepted / rejected with an error
Accepted(i) == i = Len(rt.outs) /\ RouterReturned /\ rt.ret.ok
RejectedWithError(i) ==
    /\ ~Accepted(i)
    /\ AttemptError(rt.outs[i]) # ""
    /\ IF i < Len(rt.outs) THEN rt.prompts[i + 1].validation_error = AttemptError(rt.outs[i])
       ELSE IF RouterReturned THEN rt.ret.reason.s = AttemptError(rt.outs[i])
       ELSE rt.last_error = AttemptError(rt.outs[i])

\* C22 as stated: an output is accepted exactly when it is JSON with an object
\* root, exactly the expected keys, a skills array of distinct allowed values,
\* and real booleans in the boolean fields; every other output is rejected
\* with a validation error.
C22_AcceptedIffWellShaped ==
    \A i \in 1..Len(rt.outs) :
        ~rt.outs[i].raises =>
            IF WellShaped(rt.outs[i]) THEN Accepted(i) ELSE RejectedWithError(i)

\* C22: an output is accepted exactly when it is JSON with an object root,
\* exactly the expected keys, a skills array of distinct allowed values, real
\* booleans in the boolean fields, and a string as reason; every other output
\* is rejected with a validation error.
C22_AcceptedIffWellShapedWithReason ==
    \A i \in 1..Len(rt.outs) :
        ~rt.outs[i].raises =>
            IF WellShaped(rt.outs[i]) /\ rt.outs[i].reason.type = "str"
            THEN Accepted(i) ELSE RejectedWithError(i)

C22_Witness ==
    /\ rt.fn = "intent" /\ RouterReturned /\ Len(rt.outs) = 3 /\ Accepted(3)
    /\ rt.outs[1].json = "object" /\ rt.outs[1].keys = ExpectedKeys
    /\ rt.outs[1].wants_add.type = "str"
    /\ rt.prompts[2].validation_error = "wants_add must be a boolean."
    /\ rt.outs[2].json = "object" /\ rt.outs[2].wants_delete.type = "int"
    /\ rt.prompts[3].validation_error = "wants_delete must be a boolean."
    /\ rt.ret.intent = Intent(FALSE, TRUE)

\* C23: the skill list selected for a run has 'always_on' exactly once and
\* first, whatever the model answered; the other skills are distinct allowed
\* skills in ALLOWED_SKILLS order; after a routing failure it is ['always_on'].
C23_BaselineSkillAlwaysFirst ==
    pc = "selected" =>
        LET names == rt.selected
            Pos(sk) == CHOOSE i \in 1..Len(ALLOWED_SKILLS) : ALLOWED_SKILLS[i] = sk
        IN  /\ Len(names) >= 1 /\ names[1] = "always_on"
            /\ \A i \in 2..Len(names) :
                    names[i] # "always_on" /\ names[i] \in AllowedSkillNames
            /\ \A i, j \in 1..Len(names) : i < j => Pos(names[i]) < Pos(names[j])
            /\ \A i \in 2..Len(names) :
                    \E j \in 1..Len(rt.ret.skills) : rt.ret.skills[j] = names[i]
            /\ \A j \in 1..Len(rt.ret.skills) :
                    \E i \in 1..Len(names) : names[i] = rt.ret.skills[j]
            /\ ~rt.ret.ok => names = <<"always_on">>

\* the model named two optional skills against the fixed order and no baseline
C23_Witness ==
    /\ pc = "selected" /\ rt.ret.ok
    /\ rt.ret.skills = <<"status_reporting", "task_planning">>
    /\ rt.selected = <<"always_on", "task_planning", "status_reporting">>

\* the model's answer had the baseline skill last
C23_WitnessBaselineGiven ==
    /\ pc = "selected" /\ rt.ret.ok
    /\ rt.ret.skills = <<"output_format", "always_on">>
    /\ rt.selected = <<"always_on", "output_format">>

\* C24: when intent routing exhausts its attempts the run does not fail:
\* wants_add and wants_delete are the keyword heuristic's flags for the goal
\* and the step loop starts; when routing succeeds the flags are the model's
\* validated booleans.
C24_IntentFallsBackToKeywords ==
    (entry = "router" /\ pc = "loop") =>
        /\ exit = "running" /\ outcome = "running" /\ step = 0
        /\ vs = GoalValidationState(vs.wants_add, vs.wants_delete)
        /\ IF rt.ret.ok
           THEN LET last == rt.outs[Len(rt.outs)]
                IN  /\ last.wants_add.type = "bool" /\ last.wants_delete.type = "bool"
                    /\ vs.wants_add = last.wants_add.b
                    /\ vs.wants_delete = last.wants_delete.b
           ELSE /\ Len(rt.outs) = ROUTER_MAX_ATTEMPTS
                /\ vs.wants_add = goal.add_marker
                /\ vs.wants_delete = goal.delete_marker

C24_Witness ==
    /\ entry = "router" /\ pc = "loop" /\ ~rt.ret.ok
    /\ rt.outs[1].raises /\ ~rt.outs[2].raises
    /\ goal.add_marker /\ goal.delete_marker
    /\ vs.wants_add /\ vs.wants_delete

\* routing succeeded against the keywords of the goal
C24_WitnessModelFlags ==
    /\ entry = "router" /\ pc = "loop" /\ rt.ret.ok
    /\ goal.add_marker /\ ~goal.delete_marker
    /\ ~vs.wants_add /\ vs.wants_delete

\* the call just made by the direct caller
JustCalled(op) == nreq' = nreq + 1 /\ lastCall'.op = op
Live(p) == p \in {"running", "closing"}
ClientErrors ==
    { Lit("'tool' must be a non-empty string"), Lit("'arguments' must be a dictionary"),
      Lit("Server is not running. Call start() first."),
      Lit("Failed to write to server stdin: {exc}"), Lit("Server disconnected: {detail}"),
      Lit("Server returned invalid JSON response"),
      Lit("Server response must be a JSON object"),
      Lit("Server response missing required field: status") }

\* C25: MCPClient.request never raises; a process not started, a write
\* failure, an empty read after the child exited, a reply that is not JSON,
\* not an object or without 'status' each give {status: 'error', error: ...}.
C25_RequestNeverRaises ==
    lastCall.op = "request" =>
        /\ ~lastCall.raised
        /\ lastResp.has_status /\ lastResp.status \in {"ok", "error"}
        /\ lastCall.proc \in {"none", "exited"} =>
                lastResp.status = "error" /\ lastResp.error \in ClientErrors
        /\ lastResp.status = "error" => lastResp.error # NoneText

\* the request of the last step reached handle_request and its reply came back
ServedRoundTrip ==
    /\ JustCalled("request")
    /\ Len(wire') = Len(wire) + 1 /\ Len(replies') = Len(replies) + 1
    /\ replies'[Len(replies')] = handle_request(wire'[Len(wire')], store).resp

\* C26: for every request sent through MCPClient.request to handle_request
\* the decoded reply has a 'status' field, equal to 'ok' or 'error'.
C26_RoundTripStatus ==
    [][ServedRoundTrip =>
            /\ ~lastCall'.raised
            /\ lastResp' = replies'[Len(replies')]
            /\ lastResp'.has_status /\ lastResp'.status \in {"ok", "error"}
            /\ store' = handle_request(wire'[Len(wire')], store).tasks]_vars

\* an unsupported tool name went to the server and came back as an error
C26_Witness ==
    /\ lastCall.op = "request" /\ lastCall.tool = PyStr("rename_task")
    /\ Len(wire) = 2 /\ Len(replies) = 2
    /\ replies[1].status = "ok"
    /\ lastResp = replies[2]
    /\ lastResp = ErrResp(Txt("Unsupported tool: {s}", 0, "rename_task", <<>>))

\* tool is not a non-empty string, or arguments is neither a dict nor None
BadRequest(c) ==
    /\ c.op = "request"
    /\ \/ c.tool.py # "str" \/ c.tool.s = ""
       \/ c.arguments.py \notin {"dict", "None"}

\* C27: MCPClient.request with an invalid tool or arguments value returns a
\* local error and neither writes to the child nor reads from it, whatever
\* state the transport is in; the child and its streams stay as they were.
C27_ValidationBeforeIO ==
    [][(nreq' = nreq + 1 /\ BadRequest(lastCall')) =>
            /\ ~lastCall'.raised
            /\ lastResp'.status = "error"
            /\ lastResp'.error \in { Lit("'tool' must be a non-empty string"),
                                    Lit("'arguments' must be a dictionary") }
            /\ UNCHANGED << proc, wire, replies, store, spawned >>]_vars

\* an invalid request to a running child that has already served one
C27_Witness ==
    /\ BadRequest(lastCall) /\ lastCall.proc = "running" /\ proc = "running"
    /\ lastCall.arguments.py = "str"
    /\ Len(wire) = 1 /\ Len(replies) = 1
    /\ lastResp = ErrResp(Lit("'arguments' must be a dictionary"))

\* an invalid request when the child has exited
C27_WitnessExited ==
    /\ BadRequest(lastCall) /\ lastCall.proc = "exited" /\ proc = "exited"
    /\ lastResp = ErrResp(Lit("'tool' must be a non-empty string"))

\* C28: MCPClient.start called while a live child exists spawns nothing and
\* leaves the process handle and its pipes unchanged; a child is spawned only
\* when no live child exists, so a client has at most one live child.
C28_StartIdempotent ==
    /\ [][(JustCalled("start") /\ Live(proc)) =>
            /\ ~lastCall'.raised
            /\ UNCHANGED << proc, spawned, wire, replies, store >>]_vars
    /\ [][spawned' # spawned =>
            /\ JustCalled("start")
            /\ spawned' = spawned + 1
            /\ ~Live(proc) /\ proc' = "running"]_vars

C28_Witness ==
    /\ lastCall.op = "start" /\ lastCall.proc = "running" /\ ~lastCall.raised
    /\ proc = "running" /\ spawned = 1 /\ Len(wire) = 1 /\ nreq = 3

\* the exits of run_agent that lie inside the try block, after start()
ExitsAfterStart == AcceptedExits \cup {"openai_request", "max_steps"}

\* C29: on every exit path of run_agent after the child was started
\* MCPClient.close has run and the child is no longer running when the run
\* has ended: no run leaves a server process behind.
C29_NoOrphanedChild ==
    /\ (pc = "done" /\ spawned > 0) =>
            exit \in ExitsAfterStart /\ proc = "none"
    /\ (pc = "done" /\ exit \in ExitsAfterStart) => spawned = 1

\* C30: MCPClient.close never raises to its caller, whatever the child does
\* during shutdown, so the result a run has produced is still returned.
C30_CloseNeverRaises ==
    /\ lastCall.op = "close" => ~lastCall.raised /\ proc = "none"
    /\ (pc = "done" /\ exit \in ExitsAfterStart) =>
            outcome = "returned" /\ result # NoneText /\ proc = "none"

-----------------------------------------------------------------------------
(* The pipe between MCPClient and the server loop *)

RECURSIVE ExpectedReplies(_, _)
\* the answers of handle_request to the non-blank lines, in the order of the
\* lines, each computed on the list the previous ones left
ExpectedReplies(lines, tasks) ==
    IF lines = <<>> THEN <<>>
    ELSE IF Head(lines).json = "blank" THEN ExpectedReplies(Tail(lines), tasks)
    ELSE LET h == handle_request(Head(lines), tasks)
         IN  <<h.resp>> \o ExpectedReplies(Tail(lines), h.tasks)

NonBlank(lines) == {k \in 1..Len(lines) : lines[k].json # "blank"}

\* the line the child wrote is a response of handle_request, not a garbled one
FromHandler(reply) == reply.json = "object" /\ reply.has_status

\* C31: the server loop writes exactly one response line per non-blank line of
\* its stdin, in the order of the lines, and nothing for a blank line; a call of
\* MCPClient.request that reads a reply has written exactly one request line
\* just before, and the reply the server wrote is its answer to that line.
C31_RepliesInRequestOrder ==
    [][ /\ entry = "mcp_server" =>
            /\ replies' = ExpectedReplies(wire', store0)
            /\ Len(replies') = Cardinality(NonBlank(wire'))
        /\ (entry = "mcp_client" /\ replies' # replies) =>
            /\ JustCalled("request")
            /\ Len(wire') = Len(wire) + 1
            /\ Len(replies') = Len(replies) + 1
            /\ wire'[Len(wire')].json = "object"
            /\ FromHandler(replies'[Len(replies')]) =>
                 /\ replies'[Len(replies')] = handle_request(wire'[Len(wire')], store).resp
                 /\ lastResp' = replies'[Len(replies')] ]_vars

\* the server has read a blank line between two requests and answered both
C31_Witness ==
    /\ entry = "mcp_server"
    /\ Len(wire) = 3 /\ wire[2].json = "blank"
    /\ Len(replies) = 2
    /\ replies[1].status = "ok" /\ replies[2].status = "ok"
    /\ replies[1] # replies[2]

\* the client has read the replies to two requests, the second changed by the first
C31_WitnessClient ==
    /\ entry = "mcp_client"
    /\ Len(wire) = 2 /\ Len(replies) = 2
    /\ wire[1] # wire[2]
    /\ replies[1].status = "ok" /\ lastResp = replies[2]
    /\ replies[2].result.k = "No tasks yet."
    /\ store0 # <<>>

-----------------------------------------------------------------------------
(* handle_request *)

ToolNames == {"add_task", "list_tasks", "complete_task", "delete_task", "delete_tasks"}

\* the arguments have the types the tool asks for: a non-blank string text,
\* an integer task_id, a non-empty array of integers task_ids, nothing at all
WellTyped(tool, arguments) ==
    CASE tool = "add_task" ->
            HasGood(arguments, "text") /\ arguments.text # ""
      [] tool = "list_tasks" -> arguments.keys = {}
      [] tool \in {"complete_task", "delete_task"} ->
            HasGood(arguments, "task_id") /\ "task_id" \notin arguments.bools
      [] tool = "delete_tasks" ->
            /\ HasGood(arguments, "task_ids") /\ arguments.task_ids # <<>>
            /\ "task_ids" \notin arguments.bools
      [] OTHER -> FALSE

\* a JSON object naming a recognized tool with valid arguments
ValidRequest(line) ==
    /\ line.json = "object"
    /\ line.tool.py = "str" /\ line.tool.s \in ToolNames
    /\ line.arguments.py \in {"dict", "missing"}
    /\ WellTyped(line.tool.s, line.arguments.d)

\* the server has just answered a non-blank line
LineAnswered == entry = "mcp_server" /\ replies' # replies

\* C32: handle_request returns a response for every line: status 'error' with
\* an error text for a line that is not JSON, not an object, has no usable
\* tool, has non-object arguments, wrongly typed arguments or an unrecognized
\* tool, or whose store operation raises; status 'ok' with a non-empty result
\* only for a recognized tool with valid arguments whose operation completes.
C32_OkOnlyForValidRequests ==
    [][LineAnswered =>
        LET line == wire'[Len(wire')]
            reply == replies'[Len(replies')]
        IN  /\ reply = handle_request(line, store).resp
            /\ reply.status \in {"ok", "error"}
            /\ reply.status = "ok" <=> (ValidRequest(line) /\ store # Unreadable)
            /\ reply.status = "ok" => reply.error = NoneText /\ ~IsBlank(reply.result)
            /\ reply.status = "error" => reply.result = NoneText /\ ~IsBlank(reply.error)
      ]_vars

-----------------------------------------------------------------------------
(* storage.py behind the server *)

\* lists of ids with and without repeats
IdLists == UNION { [1..n -> {1, 2, 7}] : n \in 1..3 }
IdSet(ids) == {ids[i] : i \in 1..Len(ids)}
HasRepeat(ids) == Cardinality(IdSet(ids)) < Len(ids)

\* the tasks of the list that task_ids names, each counted once
Named(tasks, ids) == {i \in 1..Len(tasks) : tasks[i].id \in IdSet(ids)}

\* the stored list after this step is one the server had not yet had
NewStore == entry = "mcp_server" /\ (wire = <<>> \/ store' # store)

\* the server has just answered a delete_tasks request on a readable store
BulkDeleted ==
    /\ LineAnswered
    /\ store # Unreadable
    /\ wire'[Len(wire')].tool = PyStr("delete_tasks")
    /\ ValidRequest(wire'[Len(wire')])

\* C33: delete_tasks with repeated ids leaves the same stored list and prints
\* the same confirmation as with the list deduplicated in first-occurrence
\* order, and a repeated id is counted once in the number of deleted tasks.
C33_DuplicateIdsCountOnce ==
    [][ /\ NewStore =>
            \A ids \in IdLists :
                LET got == delete_tasks(store', ids)
                IN  /\ got = delete_tasks(store', Dedup(ids))
                    /\ got.out.k = "Deleted {n} task(s): {ids}" =>
                            got.out.n = Cardinality(Named(store', ids))
        /\ BulkDeleted =>
            LET ids == wire'[Len(wire')].arguments.d.task_ids
                want == delete_tasks(store, Dedup(ids))
            IN  /\ store' = want.tasks
                /\ replies'[Len(replies')] = OkResp(want.out)
                /\ Len(store') = Len(store) - Cardinality(Named(store, ids)) ]_vars

\* a request naming id 2 twice has deleted both stored tasks and reported two
C33_Witness ==
    /\ entry = "mcp_server"
    /\ Len(wire) = 2
    /\ wire[2].tool = PyStr("delete_tasks")
    /\ HasRepeat(wire[2].arguments.d.task_ids)
    /\ store0 = <<Task(1, "Buy milk", FALSE)>>
    /\ store = <<>>
    /\ lastResp.status = "ok" /\ lastResp.result.n = 2
    /\ Len(lastResp.result.l) = 2

\* the ids of the stored tasks
StoredIds(tasks) == {tasks[i].id : i \in 1..Len(tasks)}

\* the request names, by task_id or by task_ids, no task of the list
NamesNoTask(line, tasks) ==
    /\ line.json = "object" /\ line.arguments.py = "dict"
    /\ \/ /\ line.tool \in {PyStr("complete_task"), PyStr("delete_task")}
          /\ line.arguments.d.task_id \notin StoredIds(tasks)
       \/ /\ line.tool = PyStr("delete_tasks")
          /\ IdSet(line.arguments.d.task_ids) \cap StoredIds(tasks) = {}

\* C39: a request answered with status 'error' leaves the stored list as it
\* was, and so does complete_task or delete_task of an id that is not stored
\* and delete_tasks when none of its ids is stored.
C39_RejectedRequestsKeepStore ==
    [][LineAnswered =>
        LET line == wire'[Len(wire')]
            reply == replies'[Len(replies')]
        IN  /\ reply.status = "error" => store' = store
            /\ NamesNoTask(line, store) => store' = store ]_vars

\* delete_task of an id no longer stored has been answered on a non-empty list
C39_Witness ==
    /\ entry = "mcp_server"
    /\ store # <<>> /\ store # Unreadable
    /\ wire # <<>>
    /\ wire[Len(wire)].tool = PyStr("delete_task")
    /\ lastResp.status = "ok"
    /\ lastResp.result.k = "Task #{n} not found."

\* a request has been rejected on a list an earlier request had changed
C39_WitnessError ==
    /\ entry = "mcp_server"
    /\ store # store0
    /\ Len(replies) >= 2
    /\ replies[1].status = "ok"
    /\ lastResp.status = "error"
    /\ lastResp = replies[Len(replies)]

Distinct(tasks) == \A i, j \in 1..Len(tasks) : tasks[i].id = tasks[j].id => i = j

\* C40: starting from an empty stored list, after any sequence of add_task,
\* mark_done, delete_task and delete_tasks the ids of the stored tasks are
\* pairwise distinct, and every add_task gives the new task an id greater than
\* every id stored at that moment (1 on an empty list).
C40_IdsDistinctAndGrowing ==
    [][(entry = "mcp_server" /\ store0 = <<>>) =>
        /\ Distinct(store')
        /\ Len(store') > Len(store) =>
            /\ store' = Append(store, store'[Len(store')])
            /\ \A id \in StoredIds(store) : store'[Len(store')].id > id
            /\ store = <<>> => store'[Len(store')].id = 1 ]_vars

\* from the empty list: a task added, completed, and a second one added
C40_Witness ==
    /\ entry = "mcp_server"
    /\ store0 = <<>>
    /\ Len(wire) = 3
    /\ Len(store) = 2
    /\ store[1].done /\ store[1].id = 1
    /\ store[2].id = 2

\* from the empty list: the only task deleted and a new one added
C40_WitnessAfterDelete ==
    /\ entry = "mcp_server"
    /\ store0 = <<>>
    /\ Len(wire) = 3 /\ Len(replies) = 3
    /\ wire[2].tool \in {PyStr("delete_task"), PyStr("delete_tasks")}
    /\ replies[2].status = "ok"
    /\ Len(store) = 1 /\ store[1].id = 1

-----------------------------------------------------------------------------
(* The router's prompts *)

\* C37: the prompt of the first attempt of a router invocation has no
\* 'Previous response failed validation' block; a prompt has the block only
\* when an earlier attempt of the same invocation failed.
C37_FirstPromptHasNoRetryBlock ==
    \A k \in 1..Len(rt.prompts) :
        rt.prompts[k].retry_block => (k > 1 /\ FailedAttempt(rt.outs[k - 1]))

-----------------------------------------------------------------------------
(* The gateway wrapper *)

\* the endpoint's error reports this parameter name as unsupported
ReportsUnsupported(exc, name) ==
    ~exc.ok /\ exc.unsupported_parameter /\ name \in exc.quoted

\* the wrapper raised at once with the model name and this failure embedded
RaisedWith(exc) ==
    /\ gw.ret.kind = "RuntimeError"
    /\ gw.ret.error.model = gw.model
    /\ gw.ret.error.message = exc

\* C34: one gateway completion makes at most two endpoint calls, the first
\* with max_completion_tokens and the second with max_tokens; the second is
\* made only if the first failed with an error reporting max_completion_tokens
\* as unsupported; any other failure of the first call and any failure of the
\* second is raised at once as an error embedding the model name and the detail.
C34_AtMostTwoEndpointCalls ==
    entry = "gateway" =>
        LET calls == gw.calls
        IN  /\ Len(calls) <= 2
            /\ Len(calls) >= 1 => calls[1].token_param = "max_completion_tokens"
            /\ Len(calls) = 2 =>
                    /\ calls[2].token_param = "max_tokens"
                    /\ ReportsUnsupported(calls[1].outcome, "max_completion_tokens")
            /\ (Len(calls) >= 1 /\ ~calls[1].outcome.ok
                    /\ ~ReportsUnsupported(calls[1].outcome, "max_completion_tokens")) =>
                    Len(calls) = 1 /\ RaisedWith(calls[1].outcome)
            /\ (Len(calls) = 2 /\ ~calls[2].outcome.ok) => RaisedWith(calls[2].outcome)
            /\ (Len(calls) >= 1 /\ calls[Len(calls)].outcome.ok) => gw.ret.kind = "response"
            /\ gw.ret.kind = "none" <=> (pc = "create" \/ gw.completions = 0)
            /\ gw.ret.kind # "none" => calls # <<>>

\* the second completion of a run fell back to max_tokens and was answered
C34_Witness ==
    /\ entry = "gateway" /\ gw.completions = 2
    /\ Len(gw.calls) = 2
    /\ gw.ret.kind = "response"

\* the first call failed for another reason and the wrapper raised after one call
C34_WitnessRaised ==
    /\ entry = "gateway"
    /\ Len(gw.calls) = 1
    /\ gw.calls[1].outcome.unsupported_parameter
    /\ gw.calls[1].outcome.quoted = {"max_tokens"}
    /\ gw.ret.kind = "RuntimeError"

-----------------------------------------------------------------------------
(* The observer *)

\* C35: observer failures never affect the run: every step of a run whose
\* on_event callback raises on some or all events is a step that the run with
\* no callback takes from the same state, with the same result, the same
\* messages appended and the same tool requests, and no run ends with the
\* callback's exception.
C35_ObserverNeverAffectsRun ==
    [][ /\ Next
        /\ exit' # "on_event"
        /\ on_event' = on_event
        /\ \A cb \in Callbacks, fails \in BOOLEAN : ~_emit_event(cb, fails).raised ]_vars

\* a run with a callback has executed tool calls and returned a final answer
C35_Witness ==
    /\ entry = "run_agent" /\ on_event = "callable"
    /\ pc = "done" /\ exit = "final_answer" /\ outcome = "returned"
    /\ callLog # <<>>
    /\ Len(messages) >= 4

-----------------------------------------------------------------------------
(* The counts of the validation state *)

\* the count a list_tasks result shows, NoCount when it shows none
ListedCount(o) ==
    IF o.name # "list_tasks" THEN NoCount
    ELSE IF o.result.k = "No tasks yet." THEN 0
    ELSE IF o.result.k = "{id}. {[x]|[ ]} {title}" /\ o.result.l # <<>> THEN Len(o.result.l)
    ELSE NoCount
Parsable(o) == ListedCount(o) # NoCount
\* the list_tasks results with a parsable count, in the order they arrived
Listings(seen) == SelectSeq(seen, Parsable)
FirstCount(seen) ==
    IF Listings(seen) = <<>> THEN NoCount ELSE ListedCount(Listings(seen)[1])
LastCount(seen) ==
    IF Listings(seen) = <<>> THEN NoCount
    ELSE ListedCount(Listings(seen)[Len(Listings(seen))])

\* C38: within a run wants_add and wants_delete never change after the
\* validation state is created; initial_count is assigned at most once, by the
\* first list_tasks result with a parsable count, and never changes afterwards;
\* latest_count always equals the count of the most recent parsable list_tasks
\* result; results of add_task, delete_task, delete_tasks and complete_task
\* leave both counts unchanged.
C38_CountsFollowListings ==
    [][entry = "validator" =>
        /\ vs'.wants_add = vs.wants_add
        /\ vs'.wants_delete = vs.wants_delete
        /\ vs.initial_count # NoCount => vs'.initial_count = vs.initial_count
        /\ vs'.initial_count = FirstCount(observed')
        /\ vs'.latest_count = LastCount(observed')
        /\ (observed' # observed /\ ~Parsable(observed'[Len(observed')])) =>
                /\ vs'.initial_count = vs.initial_count
                /\ vs'.latest_count = vs.latest_count ]_vars

\* two listings with different counts around a successful add and a completion
C38_Witness ==
    /\ entry = "validator"
    /\ Len(observed) = 3
    /\ observed[1].name = "list_tasks" /\ observed[3].name = "list_tasks"
    /\ observed[2].name = "add_task"
    /\ vs.initial_count = 0 /\ vs.latest_count = 1
    /\ vs.add_success_count = 1

\* a rejected listing and a completion after a parsable one
C38_WitnessUnparsable ==
    /\ entry = "validator"
    /\ Len(observed) = 3
    /\ observed[1].name = "list_tasks" /\ Parsable(observed[1])
    /\ observed[2].name = "complete_task"
    /\ observed[3].name = "list_tasks" /\ ~Parsable(observed[3])
    /\ vs.initial_count = 1 /\ vs.latest_count = 1

-----------------------------------------------------------------------------
(* The empty answer *)

\* the content of the last tool message of the Conversation that is not
\* blank, NoneText if there is none
LastToolResult(msgs) ==
    LET hits == {i \in 1..Len(msgs) : msgs[i].role = "tool" /\ ~IsBlank(msgs[i].content)}
    IN  IF hits = {} THEN NoneText
        ELSE msgs[CHOOSE i \in hits : \A j \in hits : j <= i].content

\* run_agent decides about an assistant message with no tool calls and no text
EmptyAnswerDecided ==
    /\ entry = "run_agent" /\ pc = "decide" /\ pc' # pc
    /\ IsBlank(AssistantText)

C36_WitnessSentinel ==
    /\ pc = "done" /\ exit = "empty_response"
    /\ outcome = "returned"
    /\ result = Lit("No final answer produced.")
    /\ callLog = <<>>

\* an empty reply was rejected and the run went on
C36_WitnessNotSatisfied ==
    /\ pc = "loop" /\ exit = "running"
    /\ Rejected
    /\ IsBlank(messages[Len(messages) - 1].content)
    /\ messages[Len(messages) - 1].role = "assistant"
    /\ last_tool_result # NoneText

=============================================================================
